---- MODULE Spec2Model ----
(***************************************************************************)
(* Model of the valuation engine of mcp-fin-analyst                        *)
(* (src/fin-analyst/valuation_calculator.py, class ValuationCalculator).   *)
(*                                                                         *)
(* Numbers.  Python floats are modelled as exact rationals n/d (d > 0, in  *)
(* lowest terms), extended with +inf, -inf and nan.  A value carries the   *)
(* flag np when it is a numpy.float64 (a scalar read out of a pandas       *)
(* frame, or anything computed from one): numpy division by zero yields    *)
(* inf/nan where plain Python raises ZeroDivisionError.  None is a value   *)
(* of its own; arithmetic and ordering on None raise TypeError.  A raised  *)
(* exception is the value Exc, which every operator propagates.  Rounding  *)
(* of binary floating point and the sign of zero are not modelled, except  *)
(* in the last section, which computes calculate_ddm in IEEE 754 binary64. *)
(***************************************************************************)
EXTENDS Integers, Sequences, FiniteSets, TLC

VARIABLES info, financials, cash_flow, last, results, calls

vars == <<info, financials, cash_flow, last, results, calls>>

-----------------------------------------------------------------------------
(* Values *)

RECURSIVE GCD(_, _)
GCD(a, b) == IF b = 0 THEN a ELSE GCD(b, a % b)

AbsInt(x) == IF x < 0 THEN -x ELSE x

SgnInt(x) == IF x > 0 THEN 1 ELSE IF x < 0 THEN -1 ELSE 0

\* the rational n/d (d # 0) in lowest terms, as a plain Python number
Q(n, d) ==
  LET g == GCD(AbsInt(n), AbsInt(d))
      s == IF d < 0 THEN -1 ELSE 1
  IN [k |-> "fin", n |-> s * (n \div g), d |-> s * (d \div g), np |-> FALSE]

Z(n) == [k |-> "fin", n |-> n, d |-> 1, np |-> FALSE]

None == [k |-> "None", n |-> 0, d |-> 1, np |-> FALSE]

\* a key that the info dictionary does not hold
Absent == [k |-> "absent", n |-> 0, d |-> 1, np |-> FALSE]

\* a raised exception
Exc == [k |-> "exc", n |-> 0, d |-> 1, np |-> FALSE]

Special(kind, isnp) == [k |-> kind, n |-> 0, d |-> 1, np |-> isnp]

\* float('inf')
PyInf == Special("inf", FALSE)

\* the same number as a numpy.float64
AsNp(a) == [a EXCEPT !.np = TRUE]

Zero == Z(0)

One == Z(1)

\* TypeError (None operand) or an exception raised earlier
Bad(a) == a.k \in {"None", "exc", "absent"}

IsFin(a) == a.k = "fin"

IsNaN(a) == a.k = "nan"

\* sign of an extended real; 0 for zero and for nan
Sign(a) ==
  IF a.k = "fin" THEN SgnInt(a.n)
  ELSE IF a.k = "inf" THEN 1
  ELSE IF a.k = "ninf" THEN -1
  ELSE 0

Signed(s, isnp) ==
  IF s > 0 THEN Special("inf", isnp)
  ELSE IF s < 0 THEN Special("ninf", isnp)
  ELSE Special("nan", isnp)

Fin(n, d, isnp) == [Q(n, d) EXCEPT !.np = isnp]

Neg(a) ==
  IF Bad(a) THEN Exc
  ELSE IF a.k = "fin" THEN [a EXCEPT !.n = -a.n]
  ELSE IF a.k = "inf" THEN [a EXCEPT !.k = "ninf"]
  ELSE IF a.k = "ninf" THEN [a EXCEPT !.k = "inf"]
  ELSE a

\* a + b
Add(a, b) ==
  LET isnp == a.np \/ b.np IN
  IF Bad(a) \/ Bad(b) THEN Exc
  ELSE IF IsNaN(a) \/ IsNaN(b) THEN Special("nan", isnp)
  ELSE IF IsFin(a) /\ IsFin(b)
    THEN LET l == (a.d \div GCD(a.d, b.d)) * b.d
         IN Fin(a.n * (l \div a.d) + b.n * (l \div b.d), l, isnp)
  ELSE IF IsFin(a) THEN [b EXCEPT !.np = isnp]
  ELSE IF IsFin(b) THEN [a EXCEPT !.np = isnp]
  ELSE IF a.k = b.k THEN [a EXCEPT !.np = isnp]
  ELSE Special("nan", isnp)

\* a - b
Sub(a, b) == Add(a, Neg(b))

\* a * b
Mul(a, b) ==
  LET isnp == a.np \/ b.np IN
  IF Bad(a) \/ Bad(b) THEN Exc
  ELSE IF IsNaN(a) \/ IsNaN(b) THEN Special("nan", isnp)
  ELSE IF IsFin(a) /\ IsFin(b)
    THEN LET g1 == GCD(AbsInt(a.n), b.d)
             g2 == GCD(AbsInt(b.n), a.d)
         IN Fin((a.n \div g1) * (b.n \div g2), (a.d \div g2) * (b.d \div g1), isnp)
  ELSE Signed(Sign(a) * Sign(b), isnp)

\* a / b: ZeroDivisionError for plain Python operands, inf or nan for numpy
Div(a, b) ==
  LET isnp == a.np \/ b.np IN
  IF Bad(a) \/ Bad(b) THEN Exc
  ELSE IF IsFin(b) /\ b.n = 0
    THEN IF isnp THEN Signed(Sign(a), TRUE) ELSE Exc
  ELSE IF IsNaN(a) \/ IsNaN(b) THEN Special("nan", isnp)
  ELSE IF IsFin(a) /\ IsFin(b)
    THEN Mul(a, Fin(b.d, b.n, b.np))
  ELSE IF IsFin(a) THEN Fin(0, 1, isnp)
  ELSE IF IsFin(b) THEN Signed(Sign(a) * Sign(b), isnp)
  ELSE Special("nan", isnp)

\* a ** i for an integer i >= 0
RECURSIVE PowI(_, _)
PowI(a, i) == IF i = 0 THEN (IF Bad(a) THEN Exc ELSE [One EXCEPT !.np = a.np])
              ELSE Mul(PowI(a, i - 1), a)

\* a == b as numbers (the numpy flag does not matter); nan equals nothing
NumEq(a, b) == a.k = b.k /\ a.n = b.n /\ a.d = b.d /\ a.k \in {"fin", "inf", "ninf"}

\* a < b; every comparison with nan is False
Lt(a, b) ==
  /\ a.k \in {"fin", "inf", "ninf"}
  /\ b.k \in {"fin", "inf", "ninf"}
  /\ \/ a.k = "ninf" /\ b.k # "ninf"
     \/ b.k = "inf" /\ a.k # "inf"
     \/ IsFin(a) /\ IsFin(b) /\ a.n * b.d < b.n * a.d

Le(a, b) == Lt(a, b) \/ NumEq(a, b)

Gt(a, b) == Lt(b, a)

Ge(a, b) == Le(b, a)

\* max(a, b) and min(a, b) of Python: the first argument unless the second beats it
Max(a, b) == IF Bad(a) \/ Bad(b) THEN Exc ELSE IF Gt(b, a) THEN b ELSE a

Min(a, b) == IF Bad(a) \/ Bad(b) THEN Exc ELSE IF Lt(b, a) THEN b ELSE a

Abs(a) == IF Bad(a) THEN Exc ELSE IF Sign(a) < 0 THEN Neg(a) ELSE a

\* a or b: b when a is None or zero
Or(a, b) == IF a.k = "None" \/ (IsFin(a) /\ a.n = 0) THEN b ELSE a

-----------------------------------------------------------------------------
(* The calculator's data: self.info, self.financials, self.cash_flow *)

InfoKeys ==
  {"currentPrice", "sharesOutstanding", "marketCap", "enterpriseValue",
   "totalRevenue", "ebitda", "trailingEps", "freeCashflow", "bookValue",
   "dividendYield", "beta", "totalDebt", "totalCash", "trailingPE",
   "pegRatio", "priceToBook", "priceToSalesTrailing12Months",
   "enterpriseToEbitda", "revenueGrowth"}

\* dict.get(key, default): the default only when the key is missing
Get(d, key, default) == IF d[key].k = "absent" THEN default ELSE d[key]

\* Series.dropna()
dropna(row) == SelectSeq(row, LAMBDA v : v.k \notin {"nan", "None"})

\* x ** (1/k) for k >= 1, exact on the k-th powers the model draws
RootBound == 12

\* the root among c, the fractions within RootBound whose k-th power is x
PickRoot(c, isnp) ==
  IF c = {} THEN Special("nan", isnp) ELSE [(CHOOSE f \in c : TRUE) EXCEPT !.np = isnp]

Root(x, k) ==
  IF Bad(x) THEN Exc
  ELSE IF k = 1 \/ ~IsFin(x) THEN x
  ELSE PickRoot({f \in {Q(r, q) : r \in 0..RootBound, q \in 1..RootBound} :
                   NumEq(PowI(f, k), x)}, x.np)

DefaultGrowth == Q(5, 100)

\* abs(growth_rate), or the except branch's 0.05 when computing it raised
abs_growth(growth_rate) == IF Bad(growth_rate) THEN DefaultGrowth ELSE Abs(growth_rate)

\* the growth rate with the ratio taken oldest over newest
growth_rate_of_inverted(fin, revenues, i) ==
  IF fin.raises THEN DefaultGrowth
  ELSE IF ~fin.isNone /\ fin.hasRow /\ Len(revenues) >= 2
    THEN abs_growth(Sub(Root(Div(revenues[Len(revenues)], revenues[1]),
                             Len(revenues) - 1), One))
  ELSE Or(Get(i, "revenueGrowth", DefaultGrowth), DefaultGrowth)

\* the branches of _calculate_growth_rate over the cleaned revenue row
growth_rate_of(fin, revenues, i) ==
  IF fin.raises THEN DefaultGrowth
  ELSE IF ~fin.isNone /\ fin.hasRow /\ Len(revenues) >= 2
    THEN abs_growth(Sub(Root(Div(revenues[1], revenues[Len(revenues)]),
                             Len(revenues) - 1), One))
  ELSE Or(Get(i, "revenueGrowth", DefaultGrowth), DefaultGrowth)

\* self._calculate_growth_rate()
calculate_growth_rate(self) ==
  growth_rate_of(self.financials, dropna(self.financials.rev), self.info)

\* operating_cf - capex, or the except branch's 0 when it raised
alternative_earnings(alt) == IF Bad(alt) THEN Zero ELSE alt

\* owner earnings kept from falling below zero
owner_earnings_of_floored(fcf, cf) ==
  IF Bad(fcf) THEN Zero
  ELSE IF Gt(fcf, Zero) THEN fcf
  ELSE IF ~cf.isNone
    THEN Max(Zero,
             alternative_earnings(Sub(IF cf.ocf.k # "absent" THEN cf.ocf ELSE Zero,
                                      IF cf.capex.k # "absent" THEN Abs(cf.capex) ELSE Zero)))
  ELSE Zero

\* the branches of _calculate_owner_earnings
owner_earnings_of(fcf, cf) ==
  IF Bad(fcf) THEN Zero
  ELSE IF Gt(fcf, Zero) THEN fcf
  ELSE IF ~cf.isNone
    THEN alternative_earnings(Sub(IF cf.ocf.k # "absent" THEN cf.ocf ELSE Zero,
                                  IF cf.capex.k # "absent" THEN Abs(cf.capex) ELSE Zero))
  ELSE Zero

\* self._calculate_owner_earnings()
calculate_owner_earnings(self) ==
  owner_earnings_of(Get(self.info, "freeCashflow", Zero), self.cash_flow)

\* the dictionary {} returned when building the snapshot raised
EmptyMetrics ==
  [ok |-> FALSE, current_price |-> Exc, shares_outstanding |-> Exc,
   market_cap |-> Exc, enterprise_value |-> Exc, revenue_ttm |-> Exc,
   ebitda_ttm |-> Exc, earnings_ttm |-> Exc, free_cash_flow_ttm |-> Exc,
   book_value |-> Exc, dividend_yield |-> Exc, growth_rate |-> Exc,
   beta |-> Exc, debt |-> Exc, cash |-> Exc, pe_ratio |-> Exc,
   peg_ratio |-> Exc, price_to_book |-> Exc, price_to_sales |-> Exc,
   ev_to_ebitda |-> Exc, eps |-> Exc, owner_earnings |-> Exc]

\* the metrics dictionary, or {} when eps * shares raised
metrics_of(self, i, earnings_ttm) ==
  IF Bad(earnings_ttm) THEN EmptyMetrics
  ELSE [ok |-> TRUE,
        current_price |-> Get(i, "currentPrice", Zero),
        shares_outstanding |-> Get(i, "sharesOutstanding", Zero),
        market_cap |-> Get(i, "marketCap", Zero),
        enterprise_value |-> Get(i, "enterpriseValue", Zero),
        revenue_ttm |-> Get(i, "totalRevenue", Zero),
        ebitda_ttm |-> Get(i, "ebitda", Zero),
        earnings_ttm |-> earnings_ttm,
        free_cash_flow_ttm |-> Get(i, "freeCashflow", Zero),
        book_value |-> Get(i, "bookValue", Zero),
        dividend_yield |-> Or(Get(i, "dividendYield", Zero), Zero),
        growth_rate |-> calculate_growth_rate(self),
        beta |-> Get(i, "beta", One),
        debt |-> Get(i, "totalDebt", Zero),
        cash |-> Get(i, "totalCash", Zero),
        pe_ratio |-> Get(i, "trailingPE", Zero),
        peg_ratio |-> Get(i, "pegRatio", Zero),
        price_to_book |-> Get(i, "priceToBook", Zero),
        price_to_sales |-> Get(i, "priceToSalesTrailing12Months", Zero),
        ev_to_ebitda |-> Get(i, "enterpriseToEbitda", Zero),
        eps |-> Get(i, "trailingEps", Zero),
        owner_earnings |-> calculate_owner_earnings(self)]

\* self.get_financial_metrics(); reading a key of {} raises KeyError, which
\* the record EmptyMetrics renders as the value Exc under every key
get_financial_metrics(self) ==
  metrics_of(self, self.info,
             Mul(Get(self.info, "trailingEps", Zero),
                 Get(self.info, "sharesOutstanding", Zero)))

-----------------------------------------------------------------------------
(* Results of the model methods *)

Signals == {"BUY", "HOLD", "SELL", "N/A"}

\* a returned (value, signal) tuple
R(value, signal) == [value |-> value, signal |-> signal, raised |-> FALSE]

\* an exception leaving the body of a method
Raised == [value |-> Exc, signal |-> "raised", raised |-> TRUE]

NA == R(Zero, "N/A")

\* try: body, except: return fallback
Caught(r, fallback) == IF r.raised THEN fallback ELSE r

MarginBand == Q(20, 100)

\* the margin rule with the band's ends counted as BUY and SELL
MarginSignal_inclusive(margin) ==
  IF Ge(margin, MarginBand) THEN "BUY"
  ELSE IF Le(margin, Neg(MarginBand)) THEN "SELL"
  ELSE "HOLD"

\* the margin rule: BUY above +20%, SELL below -20%, else HOLD
MarginSignal(margin) ==
  IF Gt(margin, MarginBand) THEN "BUY"
  ELSE IF Lt(margin, Neg(MarginBand)) THEN "SELL"
  ELSE "HOLD"

\* return value, signal; computing the margin may have raised
Margined(value, margin) ==
  IF Bad(margin) THEN Raised ELSE R(value, MarginSignal(margin))

\* (value - current_price) / current_price, then the signal
ByMargin(value, current_price) ==
  Margined(value, Div(Sub(value, current_price), current_price))

Decay == Q(9, 10)

DecayAfter == 5

\* projected_fcf of year i with the decayed growth rate not floored at
\* terminal_growth
projected_fcf_unfloored(prev, fcf, growth_rate, terminal_growth, i) ==
  IF i <= DecayAfter
    THEN Mul(fcf, PowI(Add(One, growth_rate), i))
    ELSE Mul(prev[i - 1], Add(One, Mul(growth_rate, PowI(Decay, i - DecayAfter))))

\* projected_fcf of year i, prev being the projections of the years before
projected_fcf(prev, fcf, growth_rate, terminal_growth, i) ==
  IF i <= DecayAfter
    THEN Mul(fcf, PowI(Add(One, growth_rate), i))
    ELSE Mul(prev[i - 1],
             Add(One, Max(Mul(growth_rate, PowI(Decay, i - DecayAfter)), terminal_growth)))

\* fcf_projections.append(projected_fcf)
appended(prev, fcf, growth_rate, terminal_growth, i) ==
  Append(prev, projected_fcf(prev, fcf, growth_rate, terminal_growth, i))

\* the list fcf_projections after n rounds of the projection loop
RECURSIVE fcf_projections(_, _, _, _)
fcf_projections(fcf, growth_rate, terminal_growth, n) ==
  IF n <= 0 THEN <<>>
  ELSE appended(fcf_projections(fcf, growth_rate, terminal_growth, n - 1),
                fcf, growth_rate, terminal_growth, n)

\* sum([fcf / (1 + discount_rate) ** i for i, fcf in enumerate(projs, 1)])
RECURSIVE pv_sum(_, _, _)
pv_sum(projs, discount_rate, n) ==
  IF n = 0 THEN Zero
  ELSE Add(pv_sum(projs, discount_rate, n - 1),
           Div(projs[n], PowI(Add(One, discount_rate), n)))

\* calculate_dcf from the present values on
dcf_value(metrics, projs, discount_rate, terminal_growth, years) ==
  LET pv_fcf == pv_sum(projs, discount_rate, Len(projs))
      terminal_fcf == Mul(projs[Len(projs)], Add(One, terminal_growth))
      terminal_value == Div(terminal_fcf, Sub(discount_rate, terminal_growth))
      pv_terminal == Div(terminal_value, PowI(Add(One, discount_rate), years))
      total_value == Sub(Add(Add(pv_fcf, pv_terminal), metrics.cash), metrics.debt)
      intrinsic_value == Div(total_value, metrics.shares_outstanding)
  IN ByMargin(intrinsic_value, metrics.current_price)

\* body of calculate_dcf inside the try
dcf_body(metrics, growth_arg, discount_rate, terminal_growth, years) ==
  LET fcf == metrics.free_cash_flow_ttm
      shares == metrics.shares_outstanding
      growth_rate == IF growth_arg.k = "None" THEN metrics.growth_rate ELSE growth_arg
  IN IF ~metrics.ok \/ Bad(fcf) THEN Raised
     ELSE IF Le(fcf, Zero) THEN NA
     ELSE IF Bad(shares) THEN Raised
     ELSE IF Le(shares, Zero) THEN NA
     ELSE IF years <= 0 THEN Raised
     ELSE dcf_value(metrics, fcf_projections(fcf, growth_rate, terminal_growth, years),
                    discount_rate, terminal_growth, years)

\* ValuationCalculator.calculate_dcf(growth_rate, discount_rate, terminal_growth, years)
calculate_dcf(self, growth_arg, discount_rate, terminal_growth, years) ==
  Caught(dcf_body(get_financial_metrics(self), growth_arg, discount_rate,
                  terminal_growth, years), NA)

MaxIterations == 100

\* the loop's variables after a turn that earned e
earned(s, e) ==
  [cumulative |-> Add(s.cumulative, e), years |-> s.years + 1, current_earnings |-> e]

\* one turn of the while loop of calculate_payback_time: the loop's body when
\* its condition holds, and no change once it has failed
payback_step(s, market_cap, growth_rate) ==
  IF Lt(s.cumulative, market_cap) /\ s.years < MaxIterations
    THEN earned(s, Mul(s.current_earnings, Add(One, growth_rate)))
  ELSE s

\* n turns of the loop, halving n to keep the evaluation shallow
RECURSIVE payback_steps(_, _, _, _), payback_rest(_, _, _, _)
payback_steps(s, n, market_cap, growth_rate) ==
  IF n = 0 THEN s
  ELSE IF n = 1 THEN payback_step(s, market_cap, growth_rate)
  ELSE payback_rest(payback_steps(s, n \div 2, market_cap, growth_rate),
                    n - n \div 2, market_cap, growth_rate)

payback_rest(mid, n, market_cap, growth_rate) ==
  IF mid.years < MaxIterations THEN payback_steps(mid, n, market_cap, growth_rate)
  ELSE mid

\* the while loop of calculate_payback_time: it stops within MaxIterations
\* turns; the value is the final years, or -1 when the comparison with
\* market_cap raised
payback_loop(cumulative, years, current_earnings, market_cap, growth_rate) ==
  IF Bad(market_cap) THEN -1
  ELSE payback_steps([cumulative |-> cumulative, years |-> years,
                      current_earnings |-> current_earnings],
                     MaxIterations, market_cap, growth_rate).years

PaybackBuy == 10

PaybackHold == 20

\* return years, signal
payback_result(years) ==
  IF years < 0 THEN Raised
  ELSE R(Z(years), IF years <= PaybackBuy THEN "BUY"
                   ELSE IF years <= PaybackHold THEN "HOLD"
                   ELSE "SELL")

\* the body with a market cap that is not positive answered N/A
payback_body_guarded(metrics) ==
  IF ~metrics.ok THEN Raised
  ELSE IF Le(metrics.owner_earnings, Zero) THEN R(PyInf, "N/A")
  ELSE IF ~Bad(metrics.market_cap) /\ Le(metrics.market_cap, Zero) THEN R(PyInf, "N/A")
  ELSE payback_result(payback_loop(Zero, 0, metrics.owner_earnings, metrics.market_cap,
                                   metrics.growth_rate))

\* body of calculate_payback_time inside the try
payback_body(metrics) ==
  IF ~metrics.ok THEN Raised
  ELSE IF Le(metrics.owner_earnings, Zero) THEN R(PyInf, "N/A")
  ELSE payback_result(payback_loop(Zero, 0, metrics.owner_earnings, metrics.market_cap,
                                   metrics.growth_rate))

\* calculate_payback_time with the except branch returning 0, "N/A"
calculate_payback_time_zero(self) ==
  Caught(payback_body(get_financial_metrics(self)), NA)

\* ValuationCalculator.calculate_payback_time()
calculate_payback_time(self) ==
  Caught(payback_body(get_financial_metrics(self)), R(PyInf, "N/A"))

Hundred == Z(100)

\* return yield_pct, signal
yield_result(yield_pct) ==
  IF Bad(yield_pct) THEN Raised
  ELSE R(yield_pct, IF Ge(yield_pct, Z(10)) THEN "BUY"
                    ELSE IF Ge(yield_pct, Z(5)) THEN "HOLD"
                    ELSE "SELL")

\* the body with the guard market_cap < 0 in place of market_cap <= 0
owner_earnings_yield_body_strict(metrics) ==
  IF ~metrics.ok \/ Bad(metrics.market_cap) THEN Raised
  ELSE IF Lt(metrics.market_cap, Zero) THEN NA
  ELSE yield_result(Mul(Div(metrics.owner_earnings, metrics.market_cap), Hundred))

\* body of calculate_owner_earnings_yield inside the try
owner_earnings_yield_body(metrics) ==
  IF ~metrics.ok \/ Bad(metrics.market_cap) THEN Raised
  ELSE IF Le(metrics.market_cap, Zero) THEN NA
  ELSE yield_result(Mul(Div(metrics.owner_earnings, metrics.market_cap), Hundred))

\* ValuationCalculator.calculate_owner_earnings_yield()
calculate_owner_earnings_yield(self) ==
  Caught(owner_earnings_yield_body(get_financial_metrics(self)), NA)

GrahamBase == Q(85, 10)

GrahamYield == Q(44, 10)

\* Graham's formula with the growth rate left as a fraction
graham_formula_fraction(eps, growth_pct, aaa_yield) ==
  Div(Mul(Mul(eps, Add(GrahamBase, Mul(Z(2), Div(growth_pct, Hundred)))), GrahamYield),
      aaa_yield)

\* eps * (8.5 + 2 * growth_rate) * 4.4 / aaa_yield
graham_formula(eps, growth_pct, aaa_yield) ==
  Div(Mul(Mul(eps, Add(GrahamBase, Mul(Z(2), growth_pct))), GrahamYield), aaa_yield)

\* body of calculate_graham_value inside the try
graham_body(metrics, aaa_yield) ==
  IF ~metrics.ok \/ Bad(metrics.eps) THEN Raised
  ELSE IF Le(metrics.eps, Zero) THEN NA
  ELSE ByMargin(graham_formula(metrics.eps, Mul(metrics.growth_rate, Hundred), aaa_yield),
                metrics.current_price)

\* calculate_graham_value without its try/except
calculate_graham_value_uncaught(self, aaa_yield) ==
  graham_body(get_financial_metrics(self), aaa_yield)

\* ValuationCalculator.calculate_graham_value(aaa_yield)
calculate_graham_value(self, aaa_yield) ==
  Caught(graham_body(get_financial_metrics(self), aaa_yield), NA)

\* one threshold table of analyze_multiples: (ratio, signal), or Raised
multiple_signal(ratio, buy_below, hold_below) ==
  IF Bad(ratio) THEN Raised
  ELSE IF Gt(ratio, Zero)
    THEN IF Lt(ratio, buy_below) THEN R(ratio, "BUY")
         ELSE IF Lt(ratio, hold_below) THEN R(ratio, "HOLD")
         ELSE R(ratio, "SELL")
  ELSE R(ratio, "N/A")

\* the dictionary with one rolled-up signal next to its two entries
multiples_result_rolled(ok, pe, ev) ==
  IF ~ok \/ pe.raised \/ ev.raised
    THEN [PE |-> NA, EV_EBITDA |-> NA, signal |-> "N/A", raised |-> FALSE]
    ELSE [PE |-> pe, EV_EBITDA |-> ev, signal |-> pe.signal, raised |-> FALSE]

\* the dictionary {'PE': ..., 'EV_EBITDA': ...}, or the except branch's
multiples_result(ok, pe, ev) ==
  IF ~ok \/ pe.raised \/ ev.raised
    THEN [PE |-> NA, EV_EBITDA |-> NA, raised |-> FALSE]
    ELSE [PE |-> pe, EV_EBITDA |-> ev, raised |-> FALSE]

\* the two tables over the snapshot
multiples_of(metrics) ==
  multiples_result(metrics.ok,
                   multiple_signal(metrics.pe_ratio, Z(15), Z(25)),
                   multiple_signal(metrics.ev_to_ebitda, Z(10), Z(15)))

\* ValuationCalculator.analyze_multiples()
analyze_multiples(self) == multiples_of(get_financial_metrics(self))

\* body of calculate_asset_based_value inside the try
asset_based_body(metrics) ==
  IF ~metrics.ok \/ Bad(metrics.book_value) THEN Raised
  ELSE IF Le(metrics.book_value, Zero) THEN NA
  ELSE IF Bad(metrics.price_to_book) THEN Raised
  ELSE R(metrics.book_value,
         IF Lt(metrics.price_to_book, Z(1)) THEN "BUY"
         ELSE IF Lt(metrics.price_to_book, Z(3)) THEN "HOLD"
         ELSE "SELL")

\* ValuationCalculator.calculate_asset_based_value()
calculate_asset_based_value(self) ==
  Caught(asset_based_body(get_financial_metrics(self)), NA)

\* the body with the debt added to the enterprise value, not subtracted
sotp_body_plus_debt(metrics) ==
  LET enterprise_value == metrics.enterprise_value
      shares == metrics.shares_outstanding
      sotp_value == Div(Add(Add(enterprise_value, metrics.cash), metrics.debt), shares)
  IN IF ~metrics.ok \/ Bad(enterprise_value) THEN Raised
     ELSE IF Le(enterprise_value, Zero) THEN NA
     ELSE IF Bad(shares) THEN Raised
     ELSE IF Le(shares, Zero) THEN NA
     ELSE ByMargin(sotp_value, metrics.current_price)

\* body of calculate_sotp inside the try
sotp_body(metrics) ==
  LET enterprise_value == metrics.enterprise_value
      shares == metrics.shares_outstanding
      sotp_value == Div(Sub(Add(enterprise_value, metrics.cash), metrics.debt), shares)
  IN IF ~metrics.ok \/ Bad(enterprise_value) THEN Raised
     ELSE IF Le(enterprise_value, Zero) THEN NA
     ELSE IF Bad(shares) THEN Raised
     ELSE IF Le(shares, Zero) THEN NA
     ELSE ByMargin(sotp_value, metrics.current_price)

\* ValuationCalculator.calculate_sotp()
calculate_sotp(self) == Caught(sotp_body(get_financial_metrics(self)), NA)

\* calculate_ddm from the capped growth rate on
ddm_value(metrics, growth_rate, required_return) ==
  LET annual_dividend == Mul(metrics.current_price, metrics.dividend_yield)
      next_dividend == Mul(annual_dividend, Add(One, growth_rate))
      intrinsic_value == Div(next_dividend, Sub(required_return, growth_rate))
  IN ByMargin(intrinsic_value, metrics.current_price)

\* body of calculate_ddm inside the try
ddm_body(metrics, required_return) ==
  IF ~metrics.ok \/ Bad(metrics.dividend_yield) THEN Raised
  ELSE IF Le(metrics.dividend_yield, Zero) THEN NA
  ELSE ddm_value(metrics, Min(metrics.growth_rate, Sub(required_return, Q(1, 100))),
                 required_return)

\* ValuationCalculator.calculate_ddm(required_return)
calculate_ddm(self, required_return) ==
  Caught(ddm_body(get_financial_metrics(self), required_return), NA)

\* one entry of peg_ratios: ratio / growth_rate_pct when both are positive, else 0
peg_entry(ratio, growth_rate_pct) ==
  IF Bad(ratio) THEN Exc
  ELSE IF Gt(ratio, Zero) /\ Gt(growth_rate_pct, Zero) THEN Div(ratio, growth_rate_pct)
  ELSE Zero

\* the P/FCF entry of peg_ratios
pfcf_entry(market_cap, fcf, growth_rate_pct) ==
  IF Bad(market_cap) THEN Exc
  ELSE IF ~Gt(market_cap, Zero) THEN Zero
  ELSE IF Bad(fcf) THEN Exc
  ELSE IF Gt(fcf, Zero) /\ Gt(growth_rate_pct, Zero)
    THEN Div(Div(market_cap, fcf), growth_rate_pct)
  ELSE Zero

\* sum(valid_pegs) and len(valid_pegs) over the entries in insertion order
RECURSIVE valid_sum(_, _)
valid_sum(pegs, n) ==
  IF n = 0 THEN Zero
  ELSE IF Gt(pegs[n], Zero) THEN Add(valid_sum(pegs, n - 1), pegs[n])
  ELSE valid_sum(pegs, n - 1)

valid_len(pegs) == Cardinality({j \in 1..Len(pegs) : Gt(pegs[j], Zero)})

\* the dictionary {} that calculate_peg_ratios returns from its except branch
EmptyPegs == [empty |-> TRUE, PE_PEG |-> Zero, PS_PEG |-> Zero, PB_PEG |-> Zero, PFCF_PEG |-> Zero]

\* the signal with the thresholds 1 and 2 counted as BUY and HOLD
avg_peg_signal_inclusive(avg_peg) ==
  IF Le(avg_peg, Z(1)) THEN "BUY"
  ELSE IF Le(avg_peg, Z(2)) THEN "HOLD"
  ELSE "SELL"

\* the signal of the average of the valid PEG entries
avg_peg_signal(avg_peg) ==
  IF Lt(avg_peg, Z(1)) THEN "BUY"
  ELSE IF Lt(avg_peg, Z(2)) THEN "HOLD"
  ELSE "SELL"

peg_signal(pegs) ==
  IF valid_len(pegs) = 0 THEN "N/A"
  ELSE avg_peg_signal(Div(valid_sum(pegs, 4), Z(valid_len(pegs))))

\* return peg_ratios, signal
peg_result(pe, ps, pb, pfcf) ==
  IF Bad(pe) \/ Bad(ps) \/ Bad(pb) \/ Bad(pfcf) THEN Raised
  ELSE R([empty |-> FALSE, PE_PEG |-> pe, PS_PEG |-> ps, PB_PEG |-> pb, PFCF_PEG |-> pfcf],
         peg_signal(<<pe, ps, pb, pfcf>>))

\* the four entries of peg_ratios
peg_entries(metrics, growth_rate_pct) ==
  peg_result(peg_entry(metrics.pe_ratio, growth_rate_pct),
             peg_entry(metrics.price_to_sales, growth_rate_pct),
             peg_entry(metrics.price_to_book, growth_rate_pct),
             pfcf_entry(metrics.market_cap, metrics.free_cash_flow_ttm, growth_rate_pct))

\* body of calculate_peg_ratios inside the try
peg_body(metrics) ==
  IF ~metrics.ok THEN Raised
  ELSE peg_entries(metrics, Mul(metrics.growth_rate, Hundred))

\* ValuationCalculator.calculate_peg_ratios()
calculate_peg_ratios(self) ==
  Caught(peg_body(get_financial_metrics(self)), R(EmptyPegs, "N/A"))

DefaultDiscount == Q(10, 100)

DefaultTerminal == Q(3, 100)

DefaultYears == 10

DefaultReturn == Q(10, 100)

\* the dictionary of results; the method has no try of its own, so an
\* exception leaving a model method would leave it as well
comprehensive_result(d) ==
  IF d.dcf.raised \/ d.payback_time.raised \/ d.owner_earnings_yield.raised
     \/ d.graham_value.raised \/ d.multiples.raised \/ d.asset_based.raised
     \/ d.sotp.raised \/ d.ddm.raised \/ d.peg_ratios.raised
    THEN [d EXCEPT !.raised = TRUE]
    ELSE d

\* ValuationCalculator.get_comprehensive_valuation()
get_comprehensive_valuation(self) ==
  comprehensive_result(
    [financial_metrics |-> get_financial_metrics(self),
     dcf |-> calculate_dcf(self, None, DefaultDiscount, DefaultTerminal, DefaultYears),
     payback_time |-> calculate_payback_time(self),
     owner_earnings_yield |-> calculate_owner_earnings_yield(self),
     graham_value |-> calculate_graham_value(self, GrahamYield),
     multiples |-> analyze_multiples(self),
     asset_based |-> calculate_asset_based_value(self),
     sotp |-> calculate_sotp(self),
     ddm |-> calculate_ddm(self, DefaultReturn),
     peg_ratios |-> calculate_peg_ratios(self),
     raised |-> FALSE])

-----------------------------------------------------------------------------
(* The state machine: one calculator, its methods called in any order *)

Self == [info |-> info, financials |-> financials, cash_flow |-> cash_flow]

NoFinancials == [isNone |-> TRUE, hasRow |-> FALSE, rev |-> <<>>, raises |-> FALSE]

\* a frame whose 'Total Revenue' row holds rev, most recent year first
Revenue(rev) == [isNone |-> FALSE, hasRow |-> TRUE, rev |-> rev, raises |-> FALSE]

NoCashFlow == [isNone |-> TRUE, ocf |-> Absent, capex |-> Absent]

CashFlow(ocf, capex) == [isNone |-> FALSE, ocf |-> ocf, capex |-> capex]

NotCalled == [op |-> "none", args |-> <<>>, ret |-> NA]

\* how many method calls a behaviour follows
MaxCalls == 1

\* a method that takes the price out of the data source as it reads it
\* (info.pop in place of info.get)
Call_consuming(op, args, ret) ==
  /\ calls < MaxCalls
  /\ calls' = calls + 1
  /\ last' = [op |-> op, args |-> args, ret |-> ret]
  /\ info' = [info EXCEPT !["currentPrice"] = Absent]
  /\ UNCHANGED <<financials, cash_flow, results>>

\* a method that drops the cash-flow statement and the dictionary returned
\* earlier once it has run
Call_releasing(op, args, ret) ==
  /\ calls < MaxCalls
  /\ calls' = calls + 1
  /\ last' = [op |-> op, args |-> args, ret |-> ret]
  /\ cash_flow' = NoCashFlow
  /\ results' = <<>>
  /\ UNCHANGED <<info, financials>>

Call(op, args, ret) ==
  /\ calls < MaxCalls
  /\ calls' = calls + 1
  /\ last' = [op |-> op, args |-> args, ret |-> ret]
  /\ UNCHANGED <<info, financials, cash_flow, results>>

CallDCF(growth_arg, discount_rate, terminal_growth, years) ==
  Call("calculate_dcf", <<growth_arg, discount_rate, terminal_growth, Z(years)>>,
       calculate_dcf(Self, growth_arg, discount_rate, terminal_growth, years))

CallPayback == Call("calculate_payback_time", <<>>, calculate_payback_time(Self))

CallYield ==
  Call("calculate_owner_earnings_yield", <<>>, calculate_owner_earnings_yield(Self))

CallGraham(aaa_yield) ==
  Call("calculate_graham_value", <<aaa_yield>>, calculate_graham_value(Self, aaa_yield))

CallMultiples == Call("analyze_multiples", <<>>, analyze_multiples(Self))

CallAsset == Call("calculate_asset_based_value", <<>>, calculate_asset_based_value(Self))

CallSOTP == Call("calculate_sotp", <<>>, calculate_sotp(Self))

CallDDM(required_return) ==
  Call("calculate_ddm", <<required_return>>, calculate_ddm(Self, required_return))

CallPEG == Call("calculate_peg_ratios", <<>>, calculate_peg_ratios(Self))

\* TLC's integers have 32 bits: the ten-year projection at the default rates
\* needs 11^10, so get_comprehensive_valuation is explored in the states where
\* its DCF stops at the guard or at a failed snapshot
DefaultDCFInRange(m) ==
  \/ ~m.ok
  \/ Bad(m.free_cash_flow_ttm) \/ Le(m.free_cash_flow_ttm, Zero)
  \/ Bad(m.shares_outstanding) \/ Le(m.shares_outstanding, Zero)


CallComprehensive ==
  /\ DefaultDCFInRange(get_financial_metrics(Self))
  /\ calls < MaxCalls
  /\ calls' = calls + 1
  /\ results' = <<get_comprehensive_valuation(Self)>>
  /\ last' = [op |-> "get_comprehensive_valuation", args |-> <<>>, ret |-> NA]
  /\ UNCHANGED <<info, financials, cash_flow>>

-----------------------------------------------------------------------------
(* Data sources the calculator is constructed on *)

EmptyInfo == [k \in InfoKeys |-> Absent]

ZeroInfo == [k \in InfoKeys |-> Zero]

\* a company with negative free cash flow whose owner earnings come from the
\* cash-flow statement
RichInfo ==
  [k \in InfoKeys |->
     CASE k = "currentPrice" -> Z(10)
       [] k = "sharesOutstanding" -> Z(1)
       [] k = "marketCap" -> Z(10)
       [] k = "enterpriseValue" -> Z(13)
       [] k = "totalRevenue" -> Z(5)
       [] k = "ebitda" -> Z(1)
       [] k = "trailingEps" -> Z(1)
       [] k = "freeCashflow" -> Z(-1)
       [] k = "bookValue" -> Z(4)
       [] k = "dividendYield" -> Q(12, 1000)
       [] k = "beta" -> One
       [] k = "totalDebt" -> Z(2)
       [] k = "totalCash" -> Z(1)
       [] k = "trailingPE" -> Z(10)
       [] k = "pegRatio" -> Z(2)
       [] k = "priceToBook" -> Q(5, 2)
       [] k = "priceToSalesTrailing12Months" -> Z(2)
       [] k = "enterpriseToEbitda" -> Z(13)
       [] OTHER -> Q(5, 100)]

Bases ==
  <<[info |-> EmptyInfo, financials |-> NoFinancials, cash_flow |-> NoCashFlow],
    [info |-> ZeroInfo, financials |-> Revenue(<<AsNp(Zero), AsNp(Zero)>>),
     cash_flow |-> CashFlow(AsNp(Zero), AsNp(Zero))],
    [info |-> RichInfo, financials |-> NoFinancials,
     cash_flow |-> CashFlow(AsNp(Z(4)), AsNp(Z(-1)))]>>

\* what one field of the data source may hold instead
InfoOptions == <<Absent, None, Zero, Z(-1), Z(2)>>

FinancialsOptions ==
  <<NoFinancials,
    [NoFinancials EXCEPT !.isNone = FALSE],
    Revenue(<<AsNp(Z(3))>>),
    Revenue(<<AsNp(Zero), AsNp(Zero)>>),
    Revenue(<<Zero, Zero>>),
    Revenue(<<AsNp(Z(2)), AsNp(One)>>),
    Revenue(<<AsNp(One), Special("nan", TRUE), AsNp(Z(2))>>),
    Revenue(<<AsNp(One), AsNp(Zero)>>),
    [Revenue(<<AsNp(Z(2)), AsNp(One)>>) EXCEPT !.raises = TRUE]>>

CashFlowOptions ==
  <<NoCashFlow,
    CashFlow(Absent, Absent),
    CashFlow(AsNp(Zero), AsNp(Zero)),
    CashFlow(AsNp(Z(4)), AsNp(Z(-1))),
    CashFlow(AsNp(One), AsNp(Z(-3)))>>

\* an override names a field and the index of the option it takes
Overrides ==
  (InfoKeys \X (1..Len(InfoOptions)))
    \cup ({"financials"} \X (1..Len(FinancialsOptions)))
    \cup ({"cash_flow"} \X (1..Len(CashFlowOptions)))

Apply(src, o) ==
  IF o[1] = "financials" THEN [src EXCEPT !.financials = FinancialsOptions[o[2]]]
  ELSE IF o[1] = "cash_flow" THEN [src EXCEPT !.cash_flow = CashFlowOptions[o[2]]]
  ELSE [src EXCEPT !.info[o[1]] = InfoOptions[o[2]]]

\* ValuationCalculator.__init__: the data is loaded once, no method has run
Constructed(src) ==
  /\ info = src.info
  /\ financials = src.financials
  /\ cash_flow = src.cash_flow
  /\ last = NotCalled
  /\ results = <<>>
  /\ calls = 0

\* a second field that departs from the base together with the first
Companions ==
  {<<"currentPrice", 3>>, <<"currentPrice", 2>>, <<"marketCap", 2>>,
   <<"trailingEps", 2>>, <<"freeCashflow", 5>>,
   <<"financials", 4>>, <<"financials", 6>>}

Init ==
  \E b \in 1..Len(Bases), c \in Companions, o \in Overrides :
    Constructed(Apply(Apply(Bases[b], c), o))

Half == Q(1, 2)

Next ==
  \/ \E a \in {<<None, Half, Zero, 2>>, <<Half, Half, Half, 0>>} : CallDCF(a[1], a[2], a[3], a[4])
  \/ CallPayback
  \/ CallYield
  \/ \E aaa_yield \in {GrahamYield, Zero} : CallGraham(aaa_yield)
  \/ CallMultiples
  \/ CallAsset
  \/ CallSOTP
  \/ \E required_return \in {DefaultReturn} : CallDDM(required_return)
  \/ CallPEG
  \/ CallComprehensive

Spec == Init /\ [][Next]_vars

-----------------------------------------------------------------------------
(* Claims about every model method *)

SingleOps ==
  {"calculate_dcf", "calculate_payback_time", "calculate_owner_earnings_yield",
   "calculate_graham_value", "calculate_asset_based_value", "calculate_sotp",
   "calculate_ddm", "calculate_peg_ratios"}

\* the (value, signal) results of the nine models in a comprehensive dictionary
Entries(d) ==
  <<d.dcf, d.payback_time, d.owner_earnings_yield, d.graham_value,
    d.multiples.PE, d.multiples.EV_EBITDA, d.asset_based, d.sotp, d.ddm,
    d.peg_ratios>>

\* C1: whatever the data source holds (zero, negative, null or missing
\* fields), no model method lets an exception escape and every signal it
\* returns is BUY, HOLD, SELL or N/A; so get_comprehensive_valuation returns,
\* with an entry for each of the nine models
C1_SignalsTotal ==
  /\ last.op \in SingleOps => ~last.ret.raised /\ last.ret.signal \in Signals
  /\ last.op = "analyze_multiples" =>
       /\ ~last.ret.raised
       /\ last.ret.PE.signal \in Signals
       /\ last.ret.EV_EBITDA.signal \in Signals
  /\ results # <<>> =>
       /\ ~results[1].raised
       /\ \A j \in 1..10 : /\ ~Entries(results[1])[j].raised
                           /\ Entries(results[1])[j].signal \in Signals

\* a comprehensive valuation in which two models failed inside (the payback
\* loop compared against a null market cap, Graham divided by a zero price)
\* while other models still gave a verdict
C1_Witness ==
  /\ results # <<>>
  /\ payback_body(get_financial_metrics(Self)).raised
  /\ graham_body(get_financial_metrics(Self), GrahamYield).raised
  /\ results[1].payback_time.signal = "N/A"
  /\ results[1].graham_value.signal = "N/A"
  /\ results[1].multiples.PE.signal = "BUY"
  /\ results[1].asset_based.signal = "HOLD"

\* every numeric field of the data source is 0 or absent
AllZeroSource ==
  /\ \A k \in InfoKeys : info[k] \in {Zero, Absent}
  /\ ~financials.raises
  /\ \A j \in 1..Len(financials.rev) : NumEq(financials.rev[j], Zero)
  /\ cash_flow.ocf.k = "absent" \/ NumEq(cash_flow.ocf, Zero)
  /\ cash_flow.capex.k = "absent" \/ NumEq(cash_flow.capex, Zero)

\* C3: on an all-zero data source every one of the nine models returns the
\* signal N/A and none raises
C3_AllZeroIsNA ==
  AllZeroSource =>
    /\ last.op \in SingleOps => ~last.ret.raised /\ last.ret.signal = "N/A"
    /\ last.op = "analyze_multiples" =>
         /\ ~last.ret.raised
         /\ last.ret.PE.signal = "N/A"
         /\ last.ret.EV_EBITDA.signal = "N/A"
    /\ results # <<>> =>
         /\ ~results[1].raised
         /\ \A j \in 1..10 : Entries(results[1])[j].signal = "N/A"

\* an all-zero source whose revenue history and cash-flow statement exist
\* (numpy zeros), after the owner-earnings yield was computed on it
C3_Witness ==
  /\ AllZeroSource
  /\ ~cash_flow.isNone /\ cash_flow.ocf.np
  /\ Len(financials.rev) = 2
  /\ last.op = "calculate_owner_earnings_yield"
  /\ last.ret.signal = "N/A"

\* the original C4: a model that answers N/A always returns the value 0 with it
C4_Original ==
  /\ last.op \in SingleOps \ {"calculate_peg_ratios"} /\ last.ret.signal = "N/A"
       => NumEq(last.ret.value, Zero)
  /\ last.op = "analyze_multiples" =>
       /\ last.ret.PE.signal = "N/A" => NumEq(last.ret.PE.value, Zero)
       /\ last.ret.EV_EBITDA.signal = "N/A" => NumEq(last.ret.EV_EBITDA.value, Zero)

AllZeroPegs(v) ==
  /\ NumEq(v.PE_PEG, Zero) /\ NumEq(v.PS_PEG, Zero)
  /\ NumEq(v.PB_PEG, Zero) /\ NumEq(v.PFCF_PEG, Zero)

\* C4 (amended): with the signal N/A, calculate_dcf, calculate_owner_earnings_yield,
\* calculate_graham_value, calculate_asset_based_value, calculate_sotp and
\* calculate_ddm return the value 0; calculate_payback_time returns
\* float('inf'); analyze_multiples returns the non-positive ratio itself (0
\* after an exception); calculate_peg_ratios returns its dictionary of
\* entries, all 0, or the empty dictionary after an exception
C4_NAValues ==
  /\ /\ last.op \in SingleOps \ {"calculate_peg_ratios", "calculate_payback_time"}
     /\ last.ret.signal = "N/A"
     => NumEq(last.ret.value, Zero)
  /\ last.op = "calculate_payback_time" /\ last.ret.signal = "N/A"
     => last.ret.value = PyInf
  /\ last.op = "analyze_multiples" =>
       /\ last.ret.PE.signal = "N/A" =>
            /\ Le(last.ret.PE.value, Zero)
            /\ \/ NumEq(last.ret.PE.value, get_financial_metrics(Self).pe_ratio)
               \/ last.ret = [PE |-> NA, EV_EBITDA |-> NA, raised |-> FALSE]
       /\ last.ret.EV_EBITDA.signal = "N/A" =>
            /\ Le(last.ret.EV_EBITDA.value, Zero)
            /\ \/ NumEq(last.ret.EV_EBITDA.value, get_financial_metrics(Self).ev_to_ebitda)
               \/ last.ret = [PE |-> NA, EV_EBITDA |-> NA, raised |-> FALSE]
  /\ last.op = "calculate_peg_ratios" /\ last.ret.signal = "N/A"
     => /\ AllZeroPegs(last.ret.value)
        /\ last.ret.value.empty <=> peg_body(get_financial_metrics(Self)).raised

\* the payback time of a company without owner earnings: infinite, N/A
C4_Witness ==
  /\ last.op = "calculate_payback_time"
  /\ last.ret.signal = "N/A"
  /\ last.ret.value = PyInf
  /\ ~payback_body(get_financial_metrics(Self)).raised

-----------------------------------------------------------------------------
(* The margin-rule models: calculate_dcf, calculate_graham_value,
   calculate_sotp, calculate_ddm *)

\* a company whose DCF (growth 1/2, discount 1/2, no terminal growth, two
\* years), Graham value, SOTP value and DDM margin all sit at the level l:
\* value = l per share, so that a price of 10 puts l = 12 and l = 8 on the
\* ends of the 20% band
LevelInfo(l, price, shares, growth) ==
  [k \in InfoKeys |->
     CASE k = "currentPrice" -> price
       [] k = "sharesOutstanding" -> shares
       [] k = "enterpriseValue" -> Z(l)
       [] k = "trailingEps" -> Q(l, 10)
       [] k = "freeCashflow" -> Q(l, 4)
       [] k = "dividendYield" -> Q(l, 1000)
       [] k = "totalDebt" -> One
       [] k = "totalCash" -> One
       [] k = "revenueGrowth" -> growth
       [] OTHER -> Absent]

InitMargin ==
  \E l \in {12, 8, 13, 7, 50, 0, -10},
     price \in {Z(10), Z(5), Zero, Z(-10), None},
     shares \in {One, Z(2), Zero},
     growth \in {Q(3, 400), Absent},
     f \in {NoFinancials, Revenue(<<AsNp(One), AsNp(Zero)>>),
            Revenue(<<AsNp(One), AsNp(One)>>), Revenue(<<AsNp(Zero), AsNp(Zero)>>)},
     \* a field that is null in the data source, if any
     o \in {<<"beta", 1>>, <<"sharesOutstanding", 2>>, <<"totalCash", 2>>,
            <<"totalDebt", 2>>, <<"enterpriseValue", 2>>} :
    Constructed(Apply([info |-> LevelInfo(l, price, shares, growth),
                       financials |-> f, cash_flow |-> NoCashFlow], o))

NextMargin ==
  \/ \E growth_arg \in {None, Half}, years \in {1, 2} :
       CallDCF(growth_arg, Half, Zero, years)
  \/ \E aaa_yield \in {GrahamYield, Q(22, 10), Zero} : CallGraham(aaa_yield)
  \/ CallSOTP
  \/ \E required_return \in {DefaultReturn, Q(1, 100)} : CallDDM(required_return)

SpecMargin == InitMargin /\ [][NextMargin]_vars

MarginOps == {"calculate_dcf", "calculate_graham_value", "calculate_sotp", "calculate_ddm"}

\* the price the margin is taken against
SourcePrice == Get(info, "currentPrice", Zero)

\* C2: in calculate_dcf, calculate_graham_value, calculate_sotp and
\* calculate_ddm, whenever a value is computed (the answer is not N/A) and
\* current_price > 0, the signal is BUY iff value - price > 0.20 * price, SELL
\* iff value - price < -0.20 * price and HOLD otherwise; so a margin of
\* exactly +0.20 or -0.20 is HOLD
C2_MarginRule ==
  LET v == last.ret.value
      p == SourcePrice
      excess == Sub(v, p)
      band == Mul(MarginBand, p)
  IN last.op \in MarginOps /\ last.ret.signal # "N/A" /\ ~Bad(p) /\ Gt(p, Zero)
     => /\ last.ret.signal = "BUY" <=> Gt(excess, band)
        /\ last.ret.signal = "SELL" <=> Lt(excess, Neg(band))
        /\ last.ret.signal = "HOLD" <=> ~Gt(excess, band) /\ ~Lt(excess, Neg(band))
        /\ NumEq(excess, band) \/ NumEq(excess, Neg(band)) => last.ret.signal = "HOLD"

\* a DCF value exactly 20% above the price: HOLD
C2_Witness ==
  /\ last.op = "calculate_dcf"
  /\ Gt(SourcePrice, Zero)
  /\ NumEq(Sub(last.ret.value, SourcePrice), Mul(MarginBand, SourcePrice))
  /\ last.ret.signal = "HOLD"

NoNulls == \A k \in InfoKeys : info[k].k # "None"

\* Graham's value as the specification gives it
GrahamV(aaa_yield) ==
  LET eps == Get(info, "trailingEps", Zero)
      g == calculate_growth_rate(Self)
      two_g == Mul(Z(200), g)
  IN Div(Mul(Mul(eps, Add(Q(17, 2), two_g)), Q(22, 5)), aaa_yield)

SameValue(a, b) == NumEq(a, b) \/ (IsNaN(a) /\ IsNaN(b))

\* the signal the margin rule gives value against price
RuleSignal(value, price) ==
  LET margin == Div(Sub(value, price), price)
  IN IF Gt(margin, Q(1, 5)) THEN "BUY"
     ELSE IF Lt(margin, Q(-1, 5)) THEN "SELL"
     ELSE "HOLD"

\* the original C10, on data sources without null fields: for eps > 0
\* calculate_graham_value returns V = eps * (8.5 + 2 * growth_rate * 100) * 4.4 / aaa_yield
\* and for eps <= 0 it returns (0, N/A)
C10_Original ==
  LET eps == Get(info, "trailingEps", Zero)
      aaa_yield == last.args[1]
  IN last.op = "calculate_graham_value" /\ NoNulls /\ aaa_yield = GrahamYield
     => /\ Gt(eps, Zero) => SameValue(last.ret.value, GrahamV(aaa_yield))
        /\ Le(eps, Zero) => last.ret = NA

\* C10 (amended): for eps > 0, a snapshot that could be built, a
\* current_price that is a non-zero number and a non-zero aaa_yield,
\* calculate_graham_value returns
\* V = eps * (8.5 + 2 * growth_rate * 100) * 4.4 / aaa_yield (eps = 5,
\* growth_rate = 0.05, aaa_yield = 4.4 give 92.5) with the signal of the
\* margin rule; for eps <= 0 it returns (0, N/A); and for eps > 0 it also
\* returns (0, N/A) when the snapshot cannot be built, when current_price is
\* null, and when current_price is 0 and the growth rate is a plain Python
\* float, because the margin division raises
C10_GrahamValue ==
  LET eps == Get(info, "trailingEps", Zero)
      p == SourcePrice
      g == calculate_growth_rate(Self)
      aaa_yield == last.args[1]
      V == GrahamV(aaa_yield)
      positive == ~Bad(eps) /\ Gt(eps, Zero)
      built == get_financial_metrics(Self).ok
  IN last.op = "calculate_graham_value" =>
       /\ positive /\ built /\ ~Bad(p) /\ ~NumEq(p, Zero) /\ ~NumEq(aaa_yield, Zero)
          => /\ SameValue(last.ret.value, V)
             /\ last.ret.signal = RuleSignal(V, p)
       /\ ~Bad(eps) /\ Le(eps, Zero) => last.ret = NA
       /\ positive /\ (~built \/ Bad(p) \/ (NumEq(p, Zero) /\ ~g.np)) => last.ret = NA
       /\ /\ positive /\ built /\ NumEq(eps, Z(5)) /\ NumEq(g, Q(5, 100))
          /\ aaa_yield = GrahamYield /\ ~Bad(p) /\ ~NumEq(p, Zero)
          => NumEq(last.ret.value, Q(925, 10))

\* the example of the specification: eps = 5 and growth 0.05 give 92.5
C10_Witness ==
  /\ last.op = "calculate_graham_value"
  /\ last.args[1] = GrahamYield
  /\ NumEq(Get(info, "trailingEps", Zero), Z(5))
  /\ NumEq(calculate_growth_rate(Self), Q(5, 100))
  /\ NumEq(last.ret.value, Q(925, 10))
  /\ last.ret.signal = "BUY"

\* the sum-of-the-parts value as the specification gives it
SotpV ==
  Div(Sub(Add(Get(info, "enterpriseValue", Zero), Get(info, "totalCash", Zero)),
          Get(info, "totalDebt", Zero)),
      Get(info, "sharesOutstanding", Zero))

\* the original C13, on data sources without null fields: calculate_sotp
\* returns (0, N/A) when enterprise_value <= 0 or shares_outstanding <= 0,
\* and otherwise (enterprise_value + cash - debt) / shares_outstanding with
\* the signal of the margin rule against current_price
C13_Original ==
  LET ev == Get(info, "enterpriseValue", Zero)
      shares == Get(info, "sharesOutstanding", Zero)
  IN last.op = "calculate_sotp" /\ NoNulls
     => IF Le(ev, Zero) \/ Le(shares, Zero) THEN last.ret = NA
        ELSE /\ SameValue(last.ret.value, SotpV)
             /\ last.ret.signal = RuleSignal(SotpV, SourcePrice)

\* C13 (amended): calculate_sotp returns (0, N/A) when enterprise_value <= 0
\* or shares_outstanding <= 0; otherwise, when cash, debt and current_price
\* are numbers and current_price is not 0, its value is
\* (enterprise_value + cash - debt) / shares_outstanding with the signal of
\* the margin rule against current_price; and it also returns (0, N/A) when
\* the snapshot cannot be built, when enterprise_value, cash, debt or
\* current_price is null, and when current_price is 0, because the
\* arithmetic or the margin division raises
C13_SOTPValue ==
  LET ev == Get(info, "enterpriseValue", Zero)
      shares == Get(info, "sharesOutstanding", Zero)
      cash == Get(info, "totalCash", Zero)
      debt == Get(info, "totalDebt", Zero)
      p == SourcePrice
      built == get_financial_metrics(Self).ok
      guarded == ~Bad(ev) /\ ~Bad(shares) /\ (Le(ev, Zero) \/ Le(shares, Zero))
      computable == ~Bad(cash) /\ ~Bad(debt) /\ ~Bad(p) /\ ~NumEq(p, Zero)
  IN last.op = "calculate_sotp" =>
       /\ built /\ guarded => last.ret = NA
       /\ built /\ ~Bad(ev) /\ ~Bad(shares) /\ ~guarded /\ computable
          => /\ SameValue(last.ret.value, SotpV)
             /\ last.ret.signal = RuleSignal(SotpV, p)
       /\ ~built \/ Bad(ev) \/ (~guarded /\ ~computable) => last.ret = NA

\* enterprise value 12, cash 1 and debt 1 over 2 shares at a price of 5: the
\* value 6 is exactly 20% above the price, HOLD
C13_Witness ==
  /\ last.op = "calculate_sotp"
  /\ NumEq(Get(info, "enterpriseValue", Zero), Z(12))
  /\ NumEq(Get(info, "sharesOutstanding", Zero), Z(2))
  /\ NumEq(SourcePrice, Z(5))
  /\ NumEq(last.ret.value, Z(6))
  /\ last.ret.signal = "HOLD"

\* the original C14, on data sources without null fields and with a
\* current_price that is not 0: calculate_ddm returns (0, N/A) when
\* dividend_yield <= 0; otherwise, with g = min(growth_rate,
\* required_return - 0.01), the spread required_return - g is at least 0.01
\* and the value is current_price * dividend_yield * (1 + g) / (required_return - g)
C14_Original ==
  LET dy == Or(Get(info, "dividendYield", Zero), Zero)
      p == SourcePrice
      required_return == last.args[1]
      g == Min(calculate_growth_rate(Self), Sub(required_return, Q(1, 100)))
      spread == Sub(required_return, g)
  IN last.op = "calculate_ddm" /\ NoNulls /\ ~NumEq(p, Zero)
     => IF Le(dy, Zero) THEN last.ret = NA
        ELSE /\ Ge(spread, Q(1, 100))
             /\ NumEq(last.ret.value, Div(Mul(Mul(p, dy), Add(One, g)), spread))

-----------------------------------------------------------------------------
(* The owner-earnings models: calculate_payback_time,
   calculate_owner_earnings_yield *)

EarningsInfo(fcf, market_cap, growth) ==
  [k \in InfoKeys |->
     CASE k = "currentPrice" -> Z(10)
       [] k = "sharesOutstanding" -> One
       [] k = "trailingEps" -> One
       [] k = "freeCashflow" -> fcf
       [] k = "marketCap" -> market_cap
       [] k = "revenueGrowth" -> growth
       [] OTHER -> Absent]

InitEarnings ==
  \E fcf \in {Z(10), Z(12), Z(5), One, Zero, None},
     market_cap \in {Z(100), Z(101), Z(200), Z(201), Z(1001), Zero, Z(-1), None, Absent},
     \* where the growth rate comes from: the revenue history (growth 0, 1
     \* and NaN) or, without one, the revenueGrowth estimate (-1 and 1/2)
     g \in {<<Revenue(<<AsNp(One), AsNp(One)>>), Absent>>,
            <<Revenue(<<AsNp(Z(2)), AsNp(One)>>), Absent>>,
            <<Revenue(<<AsNp(Zero), AsNp(Zero)>>), Absent>>,
            <<NoFinancials, Z(-1)>>,
            <<NoFinancials, Half>>},
     cf \in {NoCashFlow, CashFlow(AsNp(Z(12)), AsNp(Z(-2))),
             CashFlow(AsNp(One), AsNp(Z(-3)))},
     o \in {<<"beta", 1>>, <<"trailingEps", 2>>, <<"sharesOutstanding", 2>>} :
    Constructed(Apply([info |-> EarningsInfo(fcf, market_cap, g[2]),
                       financials |-> g[1], cash_flow |-> cf], o))

NextEarnings ==
  \/ CallPayback
  \/ CallYield

SpecEarnings == InitEarnings /\ [][NextEarnings]_vars

\* a field of the data source as the snapshot is specified to show it: an
\* absent or null field is 0
Numeric(key) ==
  LET x == Get(info, key, Zero)
  IN IF x.k = "None" THEN Zero ELSE x

\* the years the cumulative sum of owner earnings compounded at g needs to
\* reach market_cap, 100 when it has not reached it after 100 years
SumStep(s, market_cap, g) ==
  IF s.n = 100 \/ Ge(s.sum, market_cap) THEN s
  ELSE LET next == Mul(s.current, Add(One, g))
       IN [sum |-> Add(s.sum, next), current |-> next, n |-> s.n + 1]

RECURSIVE SumSteps(_, _, _, _)
SumSteps(s, k, market_cap, g) ==
  IF k = 0 THEN s
  ELSE IF k = 1 THEN SumStep(s, market_cap, g)
  ELSE LET mid == SumSteps(s, k \div 2, market_cap, g)
       IN IF mid.n < 100 THEN SumSteps(mid, k - k \div 2, market_cap, g) ELSE mid

YearsToReach(owner_earnings, market_cap, g) ==
  SumSteps([sum |-> Zero, current |-> owner_earnings, n |-> 0], 100, market_cap, g).n

\* C7: for owner_earnings > 0, calculate_payback_time returns the number of
\* years the cumulative sum of owner earnings compounded at growth_rate needs
\* to reach market_cap, never more than 100; owner_earnings = 10,
\* market_cap = 100 and growth 0 give exactly 10 years
C7_Original ==
  LET oe == calculate_owner_earnings(Self)
      mc == Numeric("marketCap")
      g == calculate_growth_rate(Self)
  IN last.op = "calculate_payback_time" /\ Gt(oe, Zero)
     => /\ IsFin(last.ret.value)
        /\ Le(last.ret.value, Z(100))
        /\ NumEq(last.ret.value, Z(YearsToReach(oe, mc, g)))
        /\ NumEq(oe, Z(10)) /\ NumEq(mc, Z(100)) /\ NumEq(g, Zero)
           => NumEq(last.ret.value, Z(10))

\* C8: the signal of calculate_payback_time is N/A iff owner_earnings <= 0;
\* otherwise it is BUY iff years <= 10, HOLD iff 10 < years <= 20 and SELL
\* iff years > 20
C8_Original ==
  LET oe == calculate_owner_earnings(Self)
      years == last.ret.value
      signal == last.ret.signal
  IN last.op = "calculate_payback_time"
     => /\ signal = "N/A" <=> Le(oe, Zero)
        /\ ~Le(oe, Zero)
           => /\ signal = "BUY" <=> Le(years, Z(10))
              /\ signal = "HOLD" <=> Gt(years, Z(10)) /\ Le(years, Z(20))
              /\ signal = "SELL" <=> Gt(years, Z(20))

\* C9: calculate_owner_earnings_yield returns (0, N/A) iff market_cap <= 0;
\* otherwise it returns owner_earnings / market_cap * 100 with BUY iff
\* yield >= 10, HOLD iff 5 <= yield < 10 and SELL iff yield < 5
C9_Original ==
  LET oe == calculate_owner_earnings(Self)
      mc == Numeric("marketCap")
      yield == last.ret.value
      signal == last.ret.signal
  IN last.op = "calculate_owner_earnings_yield"
     => /\ last.ret = NA <=> Le(mc, Zero)
        /\ ~Le(mc, Zero)
           => /\ SameValue(yield, Mul(Div(oe, mc), Z(100)))
              /\ signal = "BUY" <=> Ge(yield, Z(10))
              /\ signal = "HOLD" <=> Ge(yield, Z(5)) /\ Lt(yield, Z(10))
              /\ signal = "SELL" <=> Lt(yield, Z(5))

\* C26: when owner_earnings > 0 and market_cap <= 0 (a market cap of 0 or
\* below, or one missing from the data source), calculate_payback_time runs
\* no turn of its loop and returns 0 years with the signal BUY, not N/A
C26_ZeroYearsBuy ==
  LET metrics == get_financial_metrics(Self) IN
  /\ last.op = "calculate_payback_time"
  /\ metrics.ok
  /\ Gt(metrics.owner_earnings, Zero)
  /\ metrics.market_cap.k = "fin" /\ Le(metrics.market_cap, Zero)
  => /\ last.ret.signal = "BUY"
     /\ NumEq(last.ret.value, Zero)

\* owner earnings of 10 and no market cap in the data source
C26_Witness ==
  /\ last.op = "calculate_payback_time"
  /\ info["marketCap"] = Absent
  /\ info["freeCashflow"] = Z(10)
  /\ get_financial_metrics(Self).owner_earnings = Z(10)
  /\ last.ret = R(Zero, "BUY")

-----------------------------------------------------------------------------
(* The discounted cash flow model: calculate_dcf *)

DcfInfo(fcf, shares, price, cash, debt, eps) ==
  [k \in InfoKeys |->
     CASE k = "currentPrice" -> price
       [] k = "sharesOutstanding" -> shares
       [] k = "trailingEps" -> eps
       [] k = "freeCashflow" -> fcf
       [] k = "totalCash" -> cash
       [] k = "totalDebt" -> debt
       [] k = "revenueGrowth" -> Half
       [] OTHER -> Absent]

InitDCF ==
  \E fcf \in {Z(3), Zero, Z(-1), None},
     shares \in {One, Z(2), Zero, None},
     price \in {Z(10), Zero, None},
     \* cash and debt
     b \in {<<Z(2), One>>, <<None, One>>, <<Z(2), None>>},
     \* growth 1/2 from the estimate, growth 1 and an infinite growth from
     \* the revenue history
     f \in {NoFinancials, Revenue(<<AsNp(Z(2)), AsNp(One)>>),
            Revenue(<<AsNp(One), AsNp(Zero)>>)},
     eps \in {One, None} :
    Constructed([info |-> DcfInfo(fcf, shares, price, b[1], b[2], eps),
                 financials |-> f, cash_flow |-> NoCashFlow])

\* growth_rate, discount_rate, terminal_growth, years
DcfCases ==
  ({None} \X {Half} \X {Zero} \X {1, 2})
    \cup ({Half} \X {Half} \X {Zero} \X {0, 1, 2, 5, 6, 7})
    \cup ({Zero} \X {One} \X {Half} \X {1, 6, 7})
    \cup {<<Half, Half, Half, 2>>, <<Half, Zero, Half, 2>>, <<None, Zero, Half, 1>>,
          <<Zero, Z(-1), Z(-2), 1>>, <<Z(-1), Half, Zero, 6>>, <<Z(-2), One, Zero, 6>>}

NextDCF ==
  \E c \in DcfCases : CallDCF(c[1], c[2], c[3], c[4])

SpecDCF == InitDCF /\ [][NextDCF]_vars

\* C5: calculate_dcf returns (0, N/A) whenever discount_rate <=
\* terminal_growth, in the equal case and in the strictly smaller case
C5_Original ==
  LET discount_rate == last.args[2]
      terminal_growth == last.args[3]
  IN last.op = "calculate_dcf" /\ Le(discount_rate, terminal_growth)
     => last.ret = NA

\* P_i = fcf * (1 + g)^i for i <= 5, P_i = P_(i-1) * (1 + max(g * 0.9^(i-5), tg)) after
RECURSIVE ProjectedP(_, _, _, _)
ProjectedP(fcf, g, tg, i) ==
  IF i <= 5 THEN Mul(fcf, PowI(Add(One, g), i))
  ELSE Mul(ProjectedP(fcf, g, tg, i - 1),
           Add(One, LET adj == Mul(g, PowI(Q(9, 10), i - 5))
                    IN IF Ge(adj, tg) THEN adj ELSE tg))

\* sum over i = 1..n of P_i / (1 + d)^i
RECURSIVE DiscountedSum(_, _, _, _, _)
DiscountedSum(fcf, g, d, tg, n) ==
  IF n = 0 THEN Zero
  ELSE Add(DiscountedSum(fcf, g, d, tg, n - 1),
           Div(ProjectedP(fcf, g, tg, n), PowI(Add(One, d), n)))

\* the intrinsic value per share as the specification gives it
IntrinsicValue(fcf, g, d, tg, years, cash, debt, shares) ==
  LET terminal == Div(Div(Mul(ProjectedP(fcf, g, tg, years), Add(One, tg)), Sub(d, tg)),
                      PowI(Add(One, d), years))
  IN Div(Sub(Add(Add(DiscountedSum(fcf, g, d, tg, years), terminal), cash), debt), shares)

\* the call that ended in last, seen through the data source
DcfCall ==
  [fcf |-> Get(info, "freeCashflow", Zero),
   shares |-> Get(info, "sharesOutstanding", Zero),
   price |-> Get(info, "currentPrice", Zero),
   cash |-> Get(info, "totalCash", Zero),
   debt |-> Get(info, "totalDebt", Zero),
   g |-> IF last.args[1].k = "None" THEN calculate_growth_rate(Self) ELSE last.args[1],
   d |-> last.args[2],
   tg |-> last.args[3],
   years |-> last.args[4].n,
   built |-> get_financial_metrics(Self).ok]

\* the original C6: for fcf > 0, shares > 0 and discount_rate >
\* terminal_growth the intrinsic value of calculate_dcf equals the sum of the
\* discounted projections plus the discounted terminal value plus cash minus
\* debt, per share; for fcf <= 0 or shares <= 0 it returns (0, N/A). Stated
\* for years >= 1, 1 + discount_rate # 0 and a data source without null fields
C6_Original ==
  LET c == DcfCall
  IN last.op = "calculate_dcf" /\ c.years >= 1 /\ ~NumEq(c.d, Z(-1)) /\ NoNulls
     => /\ Gt(c.fcf, Zero) /\ Gt(c.shares, Zero) /\ Gt(c.d, c.tg)
           => SameValue(last.ret.value,
                        IntrinsicValue(c.fcf, c.g, c.d, c.tg, c.years, c.cash, c.debt,
                                       c.shares))
        /\ Le(c.fcf, Zero) \/ Le(c.shares, Zero) => last.ret = NA

\* C6 (amended): for fcf > 0, shares > 0, discount_rate > terminal_growth,
\* 1 + discount_rate # 0, years >= 1, cash and debt that are numbers and a
\* current_price that is a non-zero number, the intrinsic value equals
\* (sum over i = 1..years of P_i / (1+d)^i + P_years * (1+tg) / (d-tg) / (1+d)^years
\* + cash - debt) / shares with P_i as in the claim, and the signal follows the
\* margin rule; for fcf <= 0 or shares <= 0 it returns (0, N/A); and with
\* fcf > 0 and shares > 0 it also returns (0, N/A) when the snapshot cannot be
\* built, when cash, debt or current_price is null, when years < 1, and when
\* current_price is 0 and the growth rate is a plain Python float
C6_DCFValue ==
  LET c == DcfCall
      positive == Gt(c.fcf, Zero) /\ Gt(c.shares, Zero)
      V == IntrinsicValue(c.fcf, c.g, c.d, c.tg, c.years, c.cash, c.debt, c.shares)
  IN last.op = "calculate_dcf" =>
       /\ /\ positive /\ c.built /\ Gt(c.d, c.tg) /\ ~NumEq(c.d, Z(-1)) /\ c.years >= 1
          /\ ~Bad(c.cash) /\ ~Bad(c.debt) /\ ~Bad(c.price) /\ ~NumEq(c.price, Zero)
          => /\ SameValue(last.ret.value, V)
             /\ last.ret.signal = RuleSignal(V, c.price)
       /\ Le(c.fcf, Zero) \/ Le(c.shares, Zero) => last.ret = NA
       /\ /\ positive
          /\ \/ ~c.built \/ Bad(c.cash) \/ Bad(c.debt) \/ Bad(c.price) \/ c.years < 1
             \/ NumEq(c.price, Zero) /\ ~c.g.np
          => last.ret = NA

\* a seven-year projection whose decayed growth falls under terminal_growth
\* and is floored there, valued and signalled
C6_Witness ==
  LET c == DcfCall
  IN /\ last.op = "calculate_dcf"
     /\ c.years = 7
     /\ NumEq(c.g, Zero) /\ NumEq(c.tg, Half) /\ NumEq(c.d, One)
     /\ Gt(c.fcf, Zero) /\ Gt(c.shares, Zero)
     /\ last.ret.signal \in {"BUY", "HOLD", "SELL"}
     /\ NumEq(last.ret.value,
              IntrinsicValue(c.fcf, c.g, c.d, c.tg, c.years, c.cash, c.debt, c.shares))

-----------------------------------------------------------------------------
(* The ratio models: analyze_multiples, calculate_asset_based_value,
   calculate_peg_ratios *)

\* a company described by its ratios; growth comes from the estimate
RatioInfo(pe, ev, pb, bv, ps, mc, fcf, growth) ==
  [k \in InfoKeys |->
     CASE k = "currentPrice" -> Z(10)
       [] k = "sharesOutstanding" -> One
       [] k = "trailingEps" -> One
       [] k = "trailingPE" -> pe
       [] k = "enterpriseToEbitda" -> ev
       [] k = "priceToBook" -> pb
       [] k = "bookValue" -> bv
       [] k = "priceToSalesTrailing12Months" -> ps
       [] k = "marketCap" -> mc
       [] k = "freeCashflow" -> fcf
       [] k = "revenueGrowth" -> growth
       [] OTHER -> Absent]

\* three families of data sources: the two multiples on and around their
\* thresholds; book value and price-to-book; the four PEG inputs with growth
\* from the estimate (5%, 20%, 0, -1, null) or from the revenue history (NaN
\* and infinite)
InitRatios ==
  \/ \E pe \in {Z(14), Z(15), Z(20), Z(25), Z(26), Zero, Z(-1), None, Absent},
        ev \in {Z(9), Z(10), Z(12), Z(15), Z(16), Zero, None},
        o \in {<<"beta", 1>>, <<"trailingEps", 2>>} :
       Constructed(Apply([info |-> RatioInfo(pe, ev, Absent, Absent, Absent, Absent,
                                             Absent, Absent),
                          financials |-> NoFinancials, cash_flow |-> NoCashFlow], o))
  \/ \E bv \in {Z(4), Zero, Z(-1), None, Absent},
        pb \in {Half, One, Q(5, 2), Z(3), Z(4), Zero, Z(-1), None, Absent},
        o \in {<<"beta", 1>>, <<"trailingEps", 2>>, <<"currentPrice", 2>>,
               <<"currentPrice", 3>>} :
       Constructed(Apply([info |-> RatioInfo(Absent, Absent, pb, bv, Absent, Absent,
                                             Absent, Absent),
                          financials |-> NoFinancials, cash_flow |-> NoCashFlow], o))
  \/ \E pe \in {Z(20), Z(15), Z(40), Zero, Z(-1), None},
        ps \in {Absent, Z(60), Z(-1)},
        pb \in {Absent, Z(10), None},
        m \in {<<Absent, Absent>>, <<Z(100), Z(5)>>, <<Z(100), Zero>>,
               <<Z(-100), Z(-5)>>, <<Zero, None>>, <<Z(100), None>>},
        g \in {<<NoFinancials, Q(1, 20)>>, <<NoFinancials, Q(1, 5)>>,
               <<NoFinancials, Zero>>, <<NoFinancials, Z(-1)>>, <<NoFinancials, None>>,
               <<Revenue(<<AsNp(Zero), AsNp(Zero)>>), Absent>>,
               <<Revenue(<<AsNp(One), AsNp(Zero)>>), Absent>>} :
       Constructed([info |-> RatioInfo(pe, Absent, pb, Absent, ps, m[1], m[2], g[2]),
                    financials |-> g[1], cash_flow |-> NoCashFlow])

NextRatios ==
  \/ CallMultiples
  \/ CallAsset
  \/ CallPEG

SpecRatios == InitRatios /\ [][NextRatios]_vars

\* C11: analyze_multiples classifies P/E as BUY below 15, HOLD from 15 to 25
\* inclusive and SELL only above 25, EV/EBITDA as BUY below 10, HOLD from 10
\* to 15 inclusive and SELL only above 15; a ratio <= 0 is N/A; each of the
\* two signals depends on its own ratio alone
C11_Original ==
  LET pe == Numeric("trailingPE")
      ev == Numeric("enterpriseToEbitda")
      Class(ratio, buy_below, hold_upto) ==
        IF Le(ratio, Zero) THEN "N/A"
        ELSE IF Lt(ratio, buy_below) THEN "BUY"
        ELSE IF Le(ratio, hold_upto) THEN "HOLD"
        ELSE "SELL"
  IN last.op = "analyze_multiples"
     => /\ last.ret.PE.signal = Class(pe, Z(15), Z(25))
        /\ last.ret.EV_EBITDA.signal = Class(ev, Z(10), Z(15))

\* C12: calculate_asset_based_value returns (0, N/A) iff book_value <= 0;
\* otherwise it returns book_value with BUY iff price_to_book < 1, HOLD iff
\* 1 <= price_to_book < 3 and SELL iff price_to_book >= 3, whatever
\* current_price is
C12_Original ==
  LET bv == Numeric("bookValue")
      pb == Numeric("priceToBook")
      signal == last.ret.signal
  IN last.op = "calculate_asset_based_value"
     => /\ last.ret = NA <=> Le(bv, Zero)
        /\ ~Le(bv, Zero)
           => /\ SameValue(last.ret.value, bv)
              /\ signal = "BUY" <=> Lt(pb, Z(1))
              /\ signal = "HOLD" <=> Ge(pb, Z(1)) /\ Lt(pb, Z(3))
              /\ signal = "SELL" <=> Ge(pb, Z(3))

\* a PEG entry as the specification gives it: ratio / (growth_rate * 100)
\* when the ratio and the growth are positive, else 0
PegOf(ratio, growth) ==
  IF ~Bad(ratio) /\ Gt(ratio, Zero) /\ Gt(growth, Zero)
    THEN Div(ratio, Mul(growth, Z(100)))
    ELSE Zero

\* the four entries over the data source: P/E, P/S, P/B and market_cap / FCF
PegsOf(growth) ==
  <<PegOf(Numeric("trailingPE"), growth),
    PegOf(Numeric("priceToSalesTrailing12Months"), growth),
    PegOf(Numeric("priceToBook"), growth),
    PegOf(Div(Numeric("marketCap"), Numeric("freeCashflow")), growth)>>

\* the signal of the average of the entries > 0, N/A when there is none
PegVote(pegs) ==
  LET valid == {j \in 1..4 : Gt(pegs[j], Zero)}
      avg == Div(valid_sum(pegs, 4), Z(Cardinality(valid)))
  IN IF valid = {} THEN "N/A"
     ELSE IF Lt(avg, Z(1)) THEN "BUY"
     ELSE IF Lt(avg, Z(2)) THEN "HOLD"
     ELSE "SELL"

\* C15: calculate_peg_ratios sets each of the four PEG entries to
\* ratio / (growth_rate * 100) when its ratio > 0 and growth > 0 and to 0
\* otherwise; the signal is N/A iff no entry is > 0, else BUY iff the
\* average of the entries > 0 is below 1, HOLD iff it is from 1 to below 2,
\* SELL iff it is 2 or more (pe = 20 and growth 0.05 as the only valid
\* entry: average 4.0, SELL)
C15_Original ==
  LET pegs == PegsOf(calculate_growth_rate(Self))
      v == last.ret.value
  IN last.op = "calculate_peg_ratios"
     => /\ ~v.empty
        /\ SameValue(v.PE_PEG, pegs[1])
        /\ SameValue(v.PS_PEG, pegs[2])
        /\ SameValue(v.PB_PEG, pegs[3])
        /\ SameValue(v.PFCF_PEG, pegs[4])
        /\ last.ret.signal = PegVote(pegs)

\* C15 (amended): calculate_peg_ratios sets the P/E, P/S and P/B entries to
\* ratio / (growth_rate * 100) when the ratio > 0 and growth > 0 and to 0
\* otherwise, and the P/FCF entry to (market_cap / FCF) / (growth_rate * 100)
\* when market_cap > 0, FCF > 0 and growth > 0 and to 0 otherwise (so also
\* when both are negative); the signal is N/A iff no entry is > 0, else BUY
\* iff the average of the entries > 0 is below 1, HOLD iff it is from 1 to
\* below 2, SELL iff it is 2 or more (pe = 20 and growth 0.05 as the only
\* valid entry: average 4.0, SELL); when the snapshot cannot be built, or
\* P/E, P/S, P/B or market_cap is null, or market_cap > 0 and FCF is null,
\* it returns the empty mapping with N/A
C15_PegRatios ==
  LET pe == Get(info, "trailingPE", Zero)
      ps == Get(info, "priceToSalesTrailing12Months", Zero)
      pb == Get(info, "priceToBook", Zero)
      mc == Get(info, "marketCap", Zero)
      fcf == Get(info, "freeCashflow", Zero)
      g == calculate_growth_rate(Self)
      raises == \/ ~get_financial_metrics(Self).ok
                \/ Bad(pe) \/ Bad(ps) \/ Bad(pb) \/ Bad(mc)
                \/ (Gt(mc, Zero) /\ Bad(fcf))
      pegs == <<PegOf(pe, g), PegOf(ps, g), PegOf(pb, g),
                IF Gt(mc, Zero) /\ Gt(fcf, Zero) THEN PegOf(Div(mc, fcf), g) ELSE Zero>>
      v == last.ret.value
  IN last.op = "calculate_peg_ratios"
     => IF raises THEN v.empty /\ last.ret.signal = "N/A"
        ELSE /\ ~v.empty
             /\ SameValue(v.PE_PEG, pegs[1])
             /\ SameValue(v.PS_PEG, pegs[2])
             /\ SameValue(v.PB_PEG, pegs[3])
             /\ SameValue(v.PFCF_PEG, pegs[4])
             /\ last.ret.signal = PegVote(pegs)
             /\ /\ NumEq(pe, Z(20)) /\ NumEq(g, Q(5, 100))
                /\ ~Gt(ps, Zero) /\ ~Gt(pb, Zero) /\ ~Gt(mc, Zero)
                => NumEq(v.PE_PEG, Z(4)) /\ last.ret.signal = "SELL"

\* the example of the specification: pe = 20 and growth 0.05 give the PEG 4,
\* the only valid entry, and SELL
C15_Witness ==
  /\ last.op = "calculate_peg_ratios"
  /\ NumEq(Get(info, "trailingPE", Zero), Z(20))
  /\ NumEq(calculate_growth_rate(Self), Q(5, 100))
  /\ ~last.ret.value.empty
  /\ NumEq(last.ret.value.PE_PEG, Z(4))
  /\ NumEq(last.ret.value.PS_PEG, Zero)
  /\ NumEq(last.ret.value.PB_PEG, Zero)
  /\ NumEq(last.ret.value.PFCF_PEG, Zero)
  /\ last.ret.signal = "SELL"

-----------------------------------------------------------------------------
(* The signal aggregator.  The repository leaves the vote to the language
   model behind valuation_analysis_task; the source holds the declaration of
   its output (ValuationOutput: buy_count, hold_count, sell_count, na_count,
   final_recommendation) and the instruction "majority vote".  The
   aggregator below is the one the specification describes, with its default
   of HOLD on a tie. *)

\* how many of the signals are s
count(signals, s) == Cardinality({j \in DOMAIN signals : signals[j] = s})

\* the vote with N/A taking part in it like the other signals
majority_with_na(buy, hold, sell, na) ==
  IF na > buy /\ na > hold /\ na > sell THEN "N/A"
  ELSE IF buy > hold /\ buy > sell THEN "BUY"
  ELSE IF sell > buy /\ sell > hold THEN "SELL"
  ELSE "HOLD"

\* the signal with the most votes among BUY, HOLD and SELL, HOLD on a tie
majority(buy, hold, sell, na) ==
  IF buy > hold /\ buy > sell THEN "BUY"
  ELSE IF sell > buy /\ sell > hold THEN "SELL"
  ELSE "HOLD"

\* the summary fields of the bundle for given counts
bundle(buy, hold, sell, na) ==
  [buy_count |-> buy, hold_count |-> hold, sell_count |-> sell, na_count |-> na,
   final_recommendation |-> majority(buy, hold, sell, na)]

\* aggregate(results) -> (tally, final_recommendation)
aggregate(signals) ==
  bundle(count(signals, "BUY"), count(signals, "HOLD"), count(signals, "SELL"),
         count(signals, "N/A"))

\* the models that vote: the nine *_signal fields of ValuationOutput
NineModels == 9

Aggregate(signals) ==
  /\ last' = [op |-> "aggregate", args |-> signals, ret |-> aggregate(signals)]
  /\ UNCHANGED <<info, financials, cash_flow, results, calls>>

InitVote == Constructed(Bases[3])

NextVote == last.op = "none" /\ \E signals \in [1..NineModels -> Signals] : Aggregate(signals)

SpecVote == InitVote /\ [][NextVote]_vars

\* C16: the final recommendation is the majority vote among the BUY, HOLD
\* and SELL signals of the nine models; N/A signals take no part in the vote
\* but are counted in na_count; five BUY, two HOLD, one SELL and one N/A give
\* BUY with the tally buy = 5, hold = 2, sell = 1, na = 1
C16_MajorityVote ==
  LET signals == last.args
      t == last.ret
      votes(s) == {j \in 1..NineModels : signals[j] = s}
      more(a, b) == Cardinality(votes(a)) > Cardinality(votes(b))
  IN last.op = "aggregate"
     => /\ t.buy_count = Cardinality(votes("BUY"))
        /\ t.hold_count = Cardinality(votes("HOLD"))
        /\ t.sell_count = Cardinality(votes("SELL"))
        /\ t.na_count = Cardinality(votes("N/A"))
        /\ t.final_recommendation \in {"BUY", "HOLD", "SELL"}
        /\ more("BUY", "HOLD") /\ more("BUY", "SELL") => t.final_recommendation = "BUY"
        /\ more("HOLD", "BUY") /\ more("HOLD", "SELL") => t.final_recommendation = "HOLD"
        /\ more("SELL", "BUY") /\ more("SELL", "HOLD") => t.final_recommendation = "SELL"
        /\ /\ Cardinality(votes("BUY")) = 5 /\ Cardinality(votes("HOLD")) = 2
           /\ Cardinality(votes("SELL")) = 1 /\ Cardinality(votes("N/A")) = 1
           => t.final_recommendation = "BUY"

\* the example of the specification: 5 BUY, 2 HOLD, 1 SELL, 1 N/A give BUY
C16_Witness ==
  /\ last.op = "aggregate"
  /\ last.ret = [buy_count |-> 5, hold_count |-> 2, sell_count |-> 1, na_count |-> 1,
                 final_recommendation |-> "BUY"]

-----------------------------------------------------------------------------
(* The votes a comprehensive valuation carries *)

\* the signals of all entries of a comprehensive dictionary
AllSignals(d) == [j \in 1..Len(Entries(d)) |-> Entries(d)[j].signal]

\* the number of signals counted by the tally
TallySum(t) == t.buy_count + t.hold_count + t.sell_count + t.na_count

\* C17 as stated: multiples and PEG each return their sub-metric mapping with
\* exactly one rolled-up signal, so a comprehensive valuation carries nine
\* votes and buy_count + hold_count + sell_count + na_count = 9
C17_Original ==
  /\ last.op = "analyze_multiples" => "signal" \in DOMAIN last.ret
  /\ last.op = "calculate_peg_ratios" => "signal" \in DOMAIN last.ret
  /\ results # <<>> =>
       /\ "signal" \in DOMAIN results[1].multiples
       /\ "signal" \in DOMAIN results[1].peg_ratios
       /\ TallySum(aggregate(AllSignals(results[1]))) = NineModels

\* C17: calculate_peg_ratios returns its mapping of four entries with exactly
\* one signal; analyze_multiples returns a mapping of two (value, signal)
\* entries, PE and EV_EBITDA, and no rolled-up signal; so the nine models of
\* get_comprehensive_valuation carry ten signals and a tally over all of them
\* sums to 10 (to 9 only when one of the two multiples is left out)
C17_TenSignals ==
  /\ last.op = "analyze_multiples" =>
       /\ DOMAIN last.ret = {"PE", "EV_EBITDA", "raised"}
       /\ last.ret.PE.signal \in Signals /\ last.ret.EV_EBITDA.signal \in Signals
  /\ last.op = "calculate_peg_ratios" =>
       /\ last.ret.signal \in Signals
       /\ \/ last.ret.value.empty
          \/ \A k \in {"PE_PEG", "PS_PEG", "PB_PEG", "PFCF_PEG"} :
               last.ret.value[k].k \in {"fin", "inf", "nan"}
  /\ results # <<>> =>
       /\ DOMAIN results[1].multiples = {"PE", "EV_EBITDA", "raised"}
       /\ results[1].peg_ratios.signal \in Signals
       /\ DOMAIN results[1] =
            {"financial_metrics", "dcf", "payback_time", "owner_earnings_yield",
             "graham_value", "multiples", "asset_based", "sotp", "ddm",
             "peg_ratios", "raised"}
       /\ TallySum(aggregate(AllSignals(results[1]))) = NineModels + 1
       /\ TallySum(aggregate(SubSeq(AllSignals(results[1]), 1, 5)
                             \o SubSeq(AllSignals(results[1]), 7, 10))) = NineModels

\* a comprehensive valuation whose two multiples disagree, so that neither
\* is the signal of the model
C17_Witness ==
  /\ results # <<>>
  /\ results[1].multiples.PE.signal = "BUY"
  /\ results[1].multiples.EV_EBITDA.signal = "N/A"
  /\ results[1].peg_ratios.signal \in {"BUY", "HOLD", "SELL"}

-----------------------------------------------------------------------------
(* Calls that follow one another on the same calculator *)

\* the caller goes on: the behaviour follows the next calls
Rearm ==
  /\ calls = MaxCalls
  /\ calls' = 0
  /\ UNCHANGED <<info, financials, cash_flow, last, results>>

NextTwice == Next \/ Rearm

InitTwice == \E b \in 1..Len(Bases), o \in Overrides : Constructed(Apply(Bases[b], o))

SpecTwice == InitTwice /\ [][NextTwice]_vars

\* the entry of a comprehensive dictionary that a call with the default
\* arguments gives
EntryOf(d, call) ==
  CASE call.op = "calculate_payback_time" -> d.payback_time
    [] call.op = "calculate_owner_earnings_yield" -> d.owner_earnings_yield
    [] call.op = "calculate_graham_value" /\ call.args = <<GrahamYield>> -> d.graham_value
    [] call.op = "analyze_multiples" -> d.multiples
    [] call.op = "calculate_asset_based_value" -> d.asset_based
    [] call.op = "calculate_sotp" -> d.sotp
    [] call.op = "calculate_ddm" /\ call.args = <<DefaultReturn>> -> d.ddm
    [] call.op = "calculate_peg_ratios" -> d.peg_ratios
    [] OTHER -> call.ret

C19_Frame ==
  [][/\ info' = info
     /\ financials' = financials
     /\ cash_flow' = cash_flow
     /\ results # <<>> => results' = results]_vars

\* the owner-earnings yield called after a comprehensive valuation: the
\* cash-flow statement it reads and the dictionary are still there
C19_Witness ==
  /\ results # <<>>
  /\ calls = MaxCalls
  /\ last.op = "calculate_owner_earnings_yield"
  /\ last.ret.signal = "BUY"
  /\ cash_flow = CashFlow(AsNp(Z(4)), AsNp(Z(-1)))
  /\ results[1].owner_earnings_yield = last.ret

-----------------------------------------------------------------------------
(* The snapshot *)

\* the snapshot fields read straight from info, with their keys
FieldKeys ==
  [current_price |-> "currentPrice", shares_outstanding |-> "sharesOutstanding",
   market_cap |-> "marketCap", enterprise_value |-> "enterpriseValue",
   revenue_ttm |-> "totalRevenue", ebitda_ttm |-> "ebitda",
   free_cash_flow_ttm |-> "freeCashflow", book_value |-> "bookValue",
   dividend_yield |-> "dividendYield", beta |-> "beta", debt |-> "totalDebt",
   cash |-> "totalCash", pe_ratio |-> "trailingPE", peg_ratio |-> "pegRatio",
   price_to_book |-> "priceToBook",
   price_to_sales |-> "priceToSalesTrailing12Months",
   ev_to_ebitda |-> "enterpriseToEbitda", eps |-> "trailingEps"]

\* C20 as stated: in the snapshot returned by get_financial_metrics every
\* numeric field is present and is a number, and a field absent from the data
\* source or null there appears as 0
C20_Original ==
  results # <<>> =>
    LET metrics == results[1].financial_metrics IN
    /\ metrics.ok
    /\ \A f \in DOMAIN metrics \ {"ok"} : metrics[f].k \in {"fin", "inf", "ninf", "nan"}
    /\ \A f \in DOMAIN FieldKeys :
         info[FieldKeys[f]].k \in {"absent", "None"} => metrics[f] = Zero

\* the fields that hold amounts or ratios: all but growth_rate and eps
MonetaryFields ==
  (DOMAIN FieldKeys \ {"eps"}) \cup {"earnings_ttm", "owner_earnings"}

\* C21 as stated: in every snapshot all monetary fields, earnings_ttm and
\* owner_earnings included, are non-negative
C21_Original ==
  results # <<>> /\ results[1].financial_metrics.ok /\ NoNulls =>
    \A f \in MonetaryFields : Ge(results[1].financial_metrics[f], Zero)

\* C21: the snapshot takes every monetary field from the data source with
\* the sign it has there (0 when absent); earnings_ttm = eps * shares has the
\* sign of that product; owner_earnings is the free cash flow when that is
\* positive, else operating cash flow minus |capital expenditure| when there
\* is a cash-flow statement (negative when the expenditure is larger), else 0
C21_SourceSigns ==
  results # <<>> /\ results[1].financial_metrics.ok =>
    LET metrics == results[1].financial_metrics
        fcf == Get(info, "freeCashflow", Zero)
        ocf == IF cash_flow.ocf.k = "absent" THEN Zero ELSE cash_flow.ocf
        capex == IF cash_flow.capex.k = "absent" THEN Zero ELSE cash_flow.capex
    IN /\ \A f \in DOMAIN FieldKeys \ {"dividend_yield", "beta"} :
            metrics[f] = Get(info, FieldKeys[f], Zero)
       /\ NumEq(metrics.earnings_ttm,
                Mul(Get(info, "trailingEps", Zero), Get(info, "sharesOutstanding", Zero)))
       /\ Lt(metrics.earnings_ttm, Zero) <=>
            Lt(Mul(metrics.eps, metrics.shares_outstanding), Zero)
       /\ fcf.k # "None" /\ Gt(fcf, Zero) => metrics.owner_earnings = fcf
       /\ fcf.k = "None" \/ (Le(fcf, Zero) /\ cash_flow.isNone)
            => metrics.owner_earnings = Zero
       /\ fcf.k # "None" /\ Le(fcf, Zero) /\ ~cash_flow.isNone
            => /\ NumEq(metrics.owner_earnings, Sub(ocf, Abs(capex)))
               /\ Lt(metrics.owner_earnings, Zero) <=> Lt(ocf, Abs(capex))

\* a snapshot with negative free cash flow and negative owner earnings
\* (operating cash flow 1, capital expenditure 3)
C21_Witness ==
  /\ results # <<>>
  /\ results[1].financial_metrics.ok
  /\ Lt(results[1].financial_metrics.free_cash_flow_ttm, Zero)
  /\ NumEq(results[1].financial_metrics.owner_earnings, Z(-2))
  /\ cash_flow = CashFlow(AsNp(One), AsNp(Z(-3)))

-----------------------------------------------------------------------------
(* The growth rate: _calculate_growth_rate *)

CallGrowth ==
  Call("_calculate_growth_rate", <<>>, [value |-> calculate_growth_rate(Self)])

\* the calculator on a revenue history and an analyst estimate
InitGrowth ==
  \E estimate \in {Absent, None, Zero, Z(-1), Q(1, 5), DefaultGrowth, Z(2)},
     rev \in {<<>>, <<AsNp(Z(3))>>, <<AsNp(Z(3)), Special("nan", TRUE)>>,
              <<AsNp(Z(4)), AsNp(One)>>, <<AsNp(One), AsNp(Z(4))>>,
              <<AsNp(Z(2)), AsNp(Z(2))>>,
              <<AsNp(Z(8)), Special("nan", TRUE), AsNp(Z(2))>>,
              <<AsNp(Z(8)), AsNp(Z(3)), AsNp(Z(2))>>,
              <<AsNp(Z(2)), AsNp(Z(3)), AsNp(Z(8))>>,
              <<AsNp(Z(8)), AsNp(Z(4)), AsNp(Z(2)), AsNp(One)>>,
              <<AsNp(Zero), AsNp(Zero)>>, <<AsNp(One), AsNp(Zero)>>,
              <<AsNp(Zero), AsNp(One)>>},
     shape \in {"none", "no row", "row", "raises"} :
    /\ shape \in {"none", "no row"} => rev = <<>>
    /\ Constructed(
         [info |-> [EmptyInfo EXCEPT !["revenueGrowth"] = estimate],
          financials |->
            CASE shape = "none" -> NoFinancials
              [] shape = "no row" -> [NoFinancials EXCEPT !.isNone = FALSE]
              [] shape = "row" -> Revenue(rev)
              [] OTHER -> [Revenue(rev) EXCEPT !.raises = TRUE],
          cash_flow |-> NoCashFlow])

NextGrowth == CallGrowth

SpecGrowth == InitGrowth /\ [][NextGrowth]_vars

\* the revenue history holds fewer than two years, or there is none
NoHistory ==
  /\ ~financials.raises
  /\ financials.isNone \/ ~financials.hasRow \/ Len(dropna(financials.rev)) < 2

\* C22 as stated: without two years of revenue history the growth rate is the
\* analyst estimate whenever one is provided, whatever its value, and 0.05
\* only when there is none
C22_Original ==
  last.op = "_calculate_growth_rate" /\ NoHistory =>
    IF info["revenueGrowth"].k \in {"absent", "None"}
      THEN last.ret.value = DefaultGrowth
      ELSE last.ret.value = info["revenueGrowth"]

\* C23 as stated: when reading the revenue history raises, the growth rate is
\* what it is with no history, the analyst estimate when one is provided and
\* 0.05 otherwise
C23_Original ==
  last.op = "_calculate_growth_rate" /\ financials.raises =>
    last.ret.value =
      calculate_growth_rate([info |-> info, financials |-> NoFinancials,
                             cash_flow |-> cash_flow])

\* the compound annual growth rate of a history given most recent first
\* (after dropping the missing years), newest over oldest
Cagr(rev) ==
  Abs(Sub(Root(Div(rev[1], rev[Len(rev)]), Len(rev) - 1), One))

\* C24 as stated: with at least two years of history the growth rate is
\* |(revenue_oldest / revenue_newest) ** (1/(years-1)) - 1|, the series
\* being ordered most recent first, and is never negative
C24_Original ==
  LET rev == dropna(financials.rev) IN
  last.op = "_calculate_growth_rate" /\ ~financials.raises /\ Len(rev) >= 2 =>
    /\ last.ret.value = Abs(Sub(Root(Div(rev[Len(rev)], rev[1]), Len(rev) - 1), One))
    /\ ~Lt(last.ret.value, Zero)

\* C24: with at least two years of revenue history (missing years dropped)
\* the growth rate is |(revenue_newest / revenue_oldest) ** (1/(years-1)) - 1|,
\* where revenue_newest is the first and revenue_oldest the last value of the
\* series, which the source orders most recent first; it is never negative
\* (it is NaN when both revenues are 0 and infinite when only the oldest is)
C24_GrowthFromHistory ==
  LET rev == dropna(financials.rev) IN
  last.op = "_calculate_growth_rate" /\ ~financials.raises /\ Len(rev) >= 2 =>
    /\ last.ret.value = Cagr(rev)
    /\ ~Lt(last.ret.value, Zero)
    /\ last.ret.value.k \in {"fin", "inf", "nan"}
    /\ IsNaN(last.ret.value) <=> IsNaN(Div(rev[1], rev[Len(rev)]))

\* revenue 8, 4, 2, 1 from the latest year back: growth 8 ** (1/3) - 1 = 1,
\* where oldest over newest would give 1/2
C24_Witness ==
  /\ last.op = "_calculate_growth_rate"
  /\ financials = Revenue(<<AsNp(Z(8)), AsNp(Z(4)), AsNp(Z(2)), AsNp(One)>>)
  /\ NumEq(last.ret.value, One)

-----------------------------------------------------------------------------
(* finance_crew.extract_signals_from_results over a dictionary of results.
   A Python value is modelled by its type and, for a result, its signal. *)

\* the tuple (value, signal)
tuple_of(r) == [type |-> "tuple", keys |-> {}, signal |-> r.signal]

\* the dictionary {'value': value, 'signal': signal}
dict_of(r) == [type |-> "dict", keys |-> {"value", "signal"}, signal |-> r.signal]

\* the dictionary get_comprehensive_valuation returns: every model's result
\* is a tuple, multiples is a dictionary of tuples
returned(d) ==
  [dcf |-> tuple_of(d.dcf), payback_time |-> tuple_of(d.payback_time),
   owner_earnings_yield |-> tuple_of(d.owner_earnings_yield),
   graham_value |-> tuple_of(d.graham_value),
   multiples |-> [PE |-> tuple_of(d.multiples.PE),
                  EV_EBITDA |-> tuple_of(d.multiples.EV_EBITDA)],
   asset_based |-> tuple_of(d.asset_based), sotp |-> tuple_of(d.sotp),
   ddm |-> tuple_of(d.ddm), peg_ratios |-> tuple_of(d.peg_ratios)]

\* the same results with every tuple written as a dictionary with a 'signal'
as_dicts(d) ==
  [dcf |-> dict_of(d.dcf), payback_time |-> dict_of(d.payback_time),
   owner_earnings_yield |-> dict_of(d.owner_earnings_yield),
   graham_value |-> dict_of(d.graham_value),
   multiples |-> [PE |-> dict_of(d.multiples.PE),
                  EV_EBITDA |-> dict_of(d.multiples.EV_EBITDA)],
   asset_based |-> dict_of(d.asset_based), sotp |-> dict_of(d.sotp),
   ddm |-> dict_of(d.ddm), peg_ratios |-> dict_of(d.peg_ratios)]

\* isinstance(result, dict) and 'signal' in result
has_signal(result) == result.type = "dict" /\ "signal" \in result.keys

\* the keys of the single-valued models
SingleKeys ==
  {"dcf", "payback_time", "owner_earnings_yield", "graham_value", "asset_based",
   "sotp", "ddm", "peg_ratios"}

\* f"{key}_{mult_key}" and the sub-metric it names
MultKeys == [multiples_PE |-> "PE", multiples_EV_EBITDA |-> "EV_EBITDA"]

\* extract_signals_from_results(results); financial_metrics is skipped
extract_signals_from_results(py) ==
  [name \in {k \in SingleKeys : has_signal(py[k])}
            \cup {n \in DOMAIN MultKeys : has_signal(py.multiples[MultKeys[n]])} |->
     IF name \in SingleKeys THEN py[name].signal
     ELSE py.multiples[MultKeys[name]].signal]

\* the extractor applied to the results of the calculator
ExtractReturned ==
  /\ results # <<>>
  /\ last.op = "get_comprehensive_valuation"
  /\ last' = [op |-> "extract_signals_from_results", args |-> <<"returned">>,
              ret |-> extract_signals_from_results(returned(results[1]))]
  /\ UNCHANGED <<info, financials, cash_flow, results, calls>>

\* the extractor applied to results in the dictionary format
ExtractDicts ==
  /\ results # <<>>
  /\ last.op = "get_comprehensive_valuation"
  /\ last' = [op |-> "extract_signals_from_results", args |-> <<"dicts">>,
              ret |-> extract_signals_from_results(as_dicts(results[1]))]
  /\ UNCHANGED <<info, financials, cash_flow, results, calls>>

NextExtract == CallComprehensive \/ ExtractReturned \/ ExtractDicts

SpecExtract == InitTwice /\ [][NextExtract]_vars

\* C25 as stated: applied to the dictionary get_comprehensive_valuation
\* returns, extract_signals_from_results gives one signal for each
\* single-valued model and one per multiples sub-metric, and no entry for
\* financial_metrics
C25_Original ==
  last.op = "extract_signals_from_results" /\ last.args = <<"returned">> =>
    /\ DOMAIN last.ret = SingleKeys \cup {"multiples_PE", "multiples_EV_EBITDA"}
    /\ \A k \in SingleKeys : last.ret[k] = results[1][k].signal
    /\ last.ret["multiples_PE"] = results[1].multiples.PE.signal
    /\ last.ret["multiples_EV_EBITDA"] = results[1].multiples.EV_EBITDA.signal

-----------------------------------------------------------------------------
(* The standalone functions of valuation_crew.py: calculate_dcf and
   calculate_graham_value.  They take their inputs as arguments and have no
   try: an exception leaves them (the value Exc). *)

\* one round of the projection loop of the standalone calculate_dcf
crew_projected_fcf(prev, fcf, growth_rate, i) ==
  IF i <= DecayAfter
    THEN Mul(fcf, PowI(Add(One, growth_rate), i))
    ELSE Mul(prev[i - 1], Add(One, Mul(growth_rate, PowI(Decay, i - DecayAfter))))

crew_appended(prev, fcf, growth_rate, i) ==
  Append(prev, crew_projected_fcf(prev, fcf, growth_rate, i))

\* the list fcf_projections after n rounds
RECURSIVE crew_fcf_projections(_, _, _)
crew_fcf_projections(fcf, growth_rate, n) ==
  IF n <= 0 THEN <<>>
  ELSE crew_appended(crew_fcf_projections(fcf, growth_rate, n - 1), fcf, growth_rate, n)

\* pv_fcf + pv_terminal; fcf_projections[-1] of an empty list raises
crew_dcf_value(projs, discount_rate, terminal_growth, years) ==
  IF projs = <<>> THEN Exc
  ELSE Add(pv_sum(projs, discount_rate, Len(projs)),
           Div(Div(Mul(projs[Len(projs)], Add(One, terminal_growth)),
                   Sub(discount_rate, terminal_growth)),
               PowI(Add(One, discount_rate), years)))

\* valuation_crew.calculate_dcf(fcf, growth_rate, discount_rate, terminal_growth, years)
crew_calculate_dcf(fcf, growth_rate, discount_rate, terminal_growth, years) ==
  crew_dcf_value(crew_fcf_projections(fcf, growth_rate, years), discount_rate,
                 terminal_growth, years)

\* current_aaa_yield = 4.8
CurrentAAAYield == Q(48, 10)

\* valuation_crew.calculate_graham_value(eps, growth_rate, aaa_yield)
crew_calculate_graham_value(eps, growth_rate, aaa_yield) ==
  IF Bad(eps) THEN Exc
  ELSE IF Le(eps, Zero) THEN Zero
  ELSE Div(Mul(Mul(eps, Add(GrahamBase, Mul(Mul(Z(2), growth_rate), Hundred))), GrahamYield),
           CurrentAAAYield)

CrewDCF(fcf, growth_rate, discount_rate, terminal_growth, years) ==
  Call("valuation_crew.calculate_dcf",
       <<fcf, growth_rate, discount_rate, terminal_growth, Z(years)>>,
       [value |-> crew_calculate_dcf(fcf, growth_rate, discount_rate, terminal_growth, years)])

CrewGraham(eps, growth_rate, aaa_yield) ==
  Call("valuation_crew.calculate_graham_value", <<eps, growth_rate, aaa_yield>>,
       [value |-> crew_calculate_graham_value(eps, growth_rate, aaa_yield)])

NextCrew ==
  \/ \E fcf \in {Z(3), One, Zero, Z(-1)}, growth_rate \in {Half, Zero, One, Z(-1)},
        r \in {<<Half, Zero>>, <<One, Half>>, <<One, Zero>>, <<Half, Half>>},
        years \in {0, 1, 5, 6, 7} :
       CrewDCF(fcf, growth_rate, r[1], r[2], years)
  \/ \E eps \in {One, Z(2), Zero, Z(-1), None}, growth_rate \in {Zero, DefaultGrowth, Half, Q(-1, 10)},
        aaa_yield \in {GrahamYield, CurrentAAAYield, One, Zero} :
       CrewGraham(eps, growth_rate, aaa_yield)

SpecCrew == InitVote /\ [][NextCrew]_vars

\* pv_fcf + pv_terminal as ValuationCalculator.calculate_dcf computes them
\* before cash, debt and shares are applied
EnterpriseValue(fcf, growth_rate, discount_rate, terminal_growth, years) ==
  LET projs == fcf_projections(fcf, growth_rate, terminal_growth, years)
  IN Add(pv_sum(projs, discount_rate, years),
         Div(Div(Mul(projs[years], Add(One, terminal_growth)),
                 Sub(discount_rate, terminal_growth)),
             PowI(Add(One, discount_rate), years)))

\* C28 as stated: for the same fcf, growth_rate, discount_rate,
\* terminal_growth and years the standalone calculate_dcf returns the
\* pv_fcf + pv_terminal of ValuationCalculator.calculate_dcf, also when the
\* decayed rate growth_rate * 0.9^(i-5) falls below terminal_growth
C28_Original ==
  last.op = "valuation_crew.calculate_dcf" /\ last.args[5].n >= 1 =>
    last.ret.value =
      EnterpriseValue(last.args[1], last.args[2], last.args[3], last.args[4],
                      last.args[5].n)

\* C29 as stated: the standalone calculate_graham_value divides by the
\* aaa_yield it is passed, V = eps * (8.5 + 2*growth_rate*100) * 4.4 / aaa_yield,
\* and so for eps > 0 returns the value of
\* ValuationCalculator.calculate_graham_value for the same inputs
C29_Original ==
  last.op = "valuation_crew.calculate_graham_value" /\ Gt(last.args[1], Zero)
    /\ ~NumEq(last.args[3], Zero) =>
    /\ last.ret.value = graham_formula(last.args[1], Mul(last.args[2], Hundred), last.args[3])
    /\ last.ret.value =
         Div(Mul(Mul(last.args[1],
                     Add(GrahamBase, Mul(Mul(Z(2), last.args[2]), Hundred))),
                 GrahamYield),
             last.args[3])

-----------------------------------------------------------------------------
(* calculate_ddm in binary64.                                             *)
(*                                                                         *)
(* The margin rule of calculate_ddm compares a quotient of rounded         *)
(* products with 0.20, so at the ends of the band the answer is decided by *)
(* the rounding of IEEE 754 binary64, which the rational model above       *)
(* leaves out.  This section computes calculate_ddm as CPython does: every *)
(* operation is the exact result rounded to nearest, ties to even.  A      *)
(* double is [s, m, e], the number s * m * 2^e with s in {-1, 0, 1} and m  *)
(* a 53-bit natural (empty for zero); naturals are sequences of limbs base *)
(* 2^15, least significant first, without leading zero limbs.  Subnormals, *)
(* overflow, infinities and NaN do not occur on the inputs modelled here.  *)

Pow2(k) == 2 ^ k

Limb == Pow2(15)

\* limb i of a, 0 beyond its length
At(a, i) == IF i > Len(a) THEN 0 ELSE a[i]

\* the natural without its leading zero limbs
BTrim(a) ==
  IF \A i \in 1..Len(a) : a[i] = 0 THEN <<>>
  ELSE SubSeq(a, 1, CHOOSE i \in 1..Len(a) :
                      a[i] # 0 /\ \A j \in (i + 1)..Len(a) : a[j] = 0)

\* the carry into limb i of a + b: some limb below overflows and every limb
\* between passes the carry on
Carry(a, b, i) ==
  IF \E j \in 1..(i - 1) :
       /\ At(a, j) + At(b, j) >= Limb
       /\ \A k \in (j + 1)..(i - 1) : At(a, k) + At(b, k) = Limb - 1
  THEN 1 ELSE 0

\* a + b
BAdd(a, b) ==
  BTrim([i \in 1..((IF Len(a) > Len(b) THEN Len(a) ELSE Len(b)) + 1) |->
           (At(a, i) + At(b, i) + Carry(a, b, i)) % Limb])

\* the borrow from limb i of a - b
Borrow(a, b, i) ==
  IF \E j \in 1..(i - 1) :
       /\ At(a, j) < At(b, j)
       /\ \A k \in (j + 1)..(i - 1) : At(a, k) = At(b, k)
  THEN 1 ELSE 0

\* a - b for a >= b
BSub(a, b) ==
  BTrim([i \in 1..Len(a) |-> (a[i] - At(b, i) - Borrow(a, b, i) + Limb) % Limb])

\* -1, 0 or 1 as a < b, a = b or a > b, for a and b of the same length that
\* differ
BCmpAt(a, b, i) == IF a[i] < b[i] THEN -1 ELSE 1

BCmp(a, b) ==
  IF Len(a) < Len(b) THEN -1
  ELSE IF Len(a) > Len(b) THEN 1
  ELSE IF \A i \in 1..Len(a) : a[i] = b[i] THEN 0
  ELSE BCmpAt(a, b, CHOOSE i \in 1..Len(a) :
                      a[i] # b[i] /\ \A j \in (i + 1)..Len(a) : a[j] = b[j])

\* a * k for a limb k: the low halves of the limb products plus the high
\* halves one limb up
BMulLimb(a, k) ==
  BAdd([i \in 1..Len(a) |-> (a[i] * k) % Limb],
       <<0>> \o [i \in 1..Len(a) |-> (a[i] * k) \div Limb])

\* a * b
RECURSIVE BMul(_, _)
BMul(a, b) ==
  IF b = <<>> \/ a = <<>> THEN <<>>
  ELSE BAdd(BMulLimb(a, b[1]), <<0>> \o BMul(a, Tail(b)))

\* a * 2^k
BShl(a, k) ==
  IF a = <<>> THEN a
  ELSE [i \in 1..(k \div 15) |-> 0] \o BMulLimb(a, Pow2(k % 15))

\* the limbs a shifted right by r < 15 bits
BShrBits(a, r) ==
  [i \in 1..Len(a) |->
     (a[i] \div Pow2(r))
       + (IF i < Len(a) THEN (a[i + 1] % Pow2(r)) * Pow2(15 - r) ELSE 0)]

\* floor(a / 2^k)
BShr(a, k) ==
  IF k \div 15 >= Len(a) THEN <<>>
  ELSE BTrim(BShrBits(SubSeq(a, k \div 15 + 1, Len(a)), k % 15))

\* bit i of a, bit 0 the least significant
BBit(a, i) ==
  IF i \div 15 + 1 > Len(a) THEN 0
  ELSE (a[i \div 15 + 1] \div Pow2(i % 15)) % 2

\* the number of bits of the limb n
Bits(n) == IF n = 0 THEN 0 ELSE CHOOSE k \in 1..15 : Pow2(k - 1) <= n /\ n < Pow2(k)

\* the number of bits of a
BLen(a) == IF a = <<>> THEN 0 ELSE 15 * (Len(a) - 1) + Bits(a[Len(a)])

\* an estimate of floor(rem / b) for rem < b * 2^15 from the leading limbs;
\* it is never too small, and at most 2 too large when the leading limb of b
\* is at least 2^14
DigitEstimate(rem, b) ==
  IF (At(rem, Len(b) + 1) * Limb + At(rem, Len(b))) \div b[Len(b)] >= Limb
  THEN Limb - 1
  ELSE (At(rem, Len(b) + 1) * Limb + At(rem, Len(b))) \div b[Len(b)]

\* floor(rem / b) given the estimate
DigitNear(rem, b, est) ==
  CHOOSE d \in (IF est < 2 THEN 0 ELSE est - 2)..est :
    /\ BCmp(BMulLimb(b, d), rem) <= 0
    /\ BCmp(BMulLimb(b, d + 1), rem) > 0

\* the quotient quo extended by the digit d, and what is left of rem
BDivTake(rem, quo, b, d) ==
  [q |-> BTrim(<<d>> \o quo), r |-> BSub(rem, BMulLimb(b, d))]

BDivPick(rem, quo, b) == BDivTake(rem, quo, b, DigitNear(rem, b, DigitEstimate(rem, b)))

\* one step of long division in base 2^15: the next limb of the dividend is
\* brought down to the remainder of the limbs above it
BDivDigit(prev, limb, b) ==
  IF prev.r = <<>> /\ limb = 0 THEN [q |-> BTrim(<<0>> \o prev.q), r |-> <<>>]
  ELSE BDivPick(<<limb>> \o prev.r, prev.q, b)

\* quotient and remainder by b of the limbs of a from position i up, for b
\* with a leading limb of at least 2^14
RECURSIVE BDivFrom(_, _, _)
BDivFrom(a, b, i) ==
  IF i > Len(a) THEN [q |-> <<>>, r |-> <<>>]
  ELSE IF BCmp(SubSeq(a, i, Len(a)), b) < 0
  THEN [q |-> <<>>, r |-> SubSeq(a, i, Len(a))]
  ELSE BDivDigit(BDivFrom(a, b, i + 1), a[i], b)

\* quotient of a by b # 0, and a remainder that is zero just when a is a
\* multiple of b: both are scaled to bring the leading limb of b to 2^14
BDivMod(a, b) ==
  BDivFrom(BShl(a, 15 - Bits(b[Len(b)])), BShl(b, 15 - Bits(b[Len(b)])), 1)

Mant == 53

FZero == [s |-> 0, m |-> <<>>, e |-> 0]

\* the double of sign s, mantissa the limbs l0 (lowest) to l3, exponent e
F64(s, l3, l2, l1, l0, e) == [s |-> s, m |-> <<l0, l1, l2, l3>>, e |-> e]

\* the rounded mantissa q1 = q + 1: a carry out of 53 bits is a power of two
FCarry(s, q1, e) ==
  IF BLen(q1) > Mant THEN [s |-> s, m |-> BShr(q1, 1), e |-> e + 1]
  ELSE [s |-> s, m |-> q1, e |-> e]

\* the kept bits q of a mantissa, rounded up or not
FRoundQ(s, q, e, up) ==
  IF up THEN FCarry(s, BAdd(q, <<1>>), e) ELSE [s |-> s, m |-> q, e |-> e]

\* the k > 0 dropped bits of M are more than half a unit of the last kept bit,
\* or exactly half with the last kept bit odd
RoundsUp(M, k) ==
  /\ BBit(M, k - 1) = 1
  /\ \/ BBit(M, k) = 1
     \/ \E i \in 0..(k - 2) : BBit(M, i) = 1

\* s * M * 2^e, M # 0 of L bits, rounded to 53 bits, to nearest, ties to even
FRoundL(s, M, e, L) ==
  IF L <= Mant THEN [s |-> s, m |-> BShl(M, Mant - L), e |-> e - (Mant - L)]
  ELSE FRoundQ(s, BShr(M, L - Mant), e + (L - Mant), RoundsUp(M, L - Mant))

\* the double nearest to s * M * 2^e
FRound(s, M, e) == IF s = 0 \/ M = <<>> THEN FZero ELSE FRoundL(s, M, e, BLen(M))

\* a * b
FMul(a, b) == FRound(a.s * b.s, BMul(a.m, b.m), a.e + b.e)

\* sa * A * 2^e + sb * B * 2^e
FSum(sa, A, sb, B, e) ==
  IF sa = 0 THEN FRound(sb, B, e)
  ELSE IF sb = 0 \/ sa = sb THEN FRound(sa, BAdd(A, B), e)
  ELSE IF BCmp(A, B) >= 0 THEN FRound(sa, BSub(A, B), e)
  ELSE FRound(sb, BSub(B, A), e)

\* a + b for operands brought to the common exponent e, the smaller of the two
FAddAt(a, b, e) == FSum(a.s, BShl(a.m, a.e - e), b.s, BShl(b.m, b.e - e), e)

\* a + b
FAdd(a, b) ==
  IF a.s = 0 THEN b
  ELSE IF b.s = 0 THEN a
  ELSE FAddAt(a, b, IF a.e < b.e THEN a.e ELSE b.e)

FNeg(a) == [a EXCEPT !.s = -a.s]

\* a - b
FSub(a, b) == FAdd(a, FNeg(b))

\* the quotient of the mantissas to 57 or 58 bits with a sticky last bit
FDivQ(s, qr, e) ==
  FRound(s, BAdd(BShl(qr.q, 1), IF qr.r = <<>> THEN <<>> ELSE <<1>>), e - 1)

\* a / b for b # 0; the callers raise ZeroDivisionError for b = 0
FDiv(a, b) ==
  IF b.s = 0 \/ a.s = 0 THEN FZero
  ELSE FDivQ(a.s * b.s, BDivMod(BShl(a.m, 56), b.m), a.e - b.e - 56)

\* -1, 0 or 1 as |a| < |b|, |a| = |b| or |a| > |b|, for a and b not zero
FCmpMag(a, b) ==
  IF a.e < b.e THEN -1 ELSE IF a.e > b.e THEN 1 ELSE BCmp(a.m, b.m)

\* -1, 0 or 1 as a < b, a = b or a > b
FCmp(a, b) ==
  IF a.s # b.s THEN (IF a.s < b.s THEN -1 ELSE 1)
  ELSE IF a.s = 0 THEN 0
  ELSE a.s * FCmpMag(a, b)

FOne == F64(1, 128, 0, 0, 0, -52)

\* the literal 0.20 of the margin rule
Band64 == F64(1, 204, 26214, 13107, 6554, -55)

\* the literal 0.01 of the growth cap
Cap64 == F64(1, 163, 27525, 3932, 5243, -59)

\* the default required_return = 0.10
DefaultReturn64 == F64(1, 204, 26214, 13107, 6554, -56)

\* the fallback growth 0.05 of _calculate_growth_rate
DefaultGrowth64 == F64(1, 204, 26214, 13107, 6554, -57)

\* info.get(key, default) for a field that holds a double or is missing
Get64(self, key, default) ==
  IF self.info[key] = Absent THEN default ELSE self.info[key]

\* x or default
Or64(x, default) == IF x.s = 0 THEN default ELSE x

\* min(a, b): b when b < a, else a
Min64(a, b) == IF FCmp(b, a) < 0 THEN b ELSE a

\* the fields of get_financial_metrics that calculate_ddm reads, for a
\* calculator without financial statements
metrics64(self) ==
  [current_price |-> Get64(self, "currentPrice", FZero),
   dividend_yield |-> Or64(Get64(self, "dividendYield", FZero), FZero),
   growth_rate |-> Or64(Get64(self, "revenueGrowth", DefaultGrowth64), DefaultGrowth64)]

\* the margin rule: BUY above 0.20, SELL below -0.20, HOLD between
signal64(margin) ==
  IF FCmp(margin, Band64) > 0 THEN "BUY"
  ELSE IF FCmp(margin, FNeg(Band64)) < 0 THEN "SELL"
  ELSE "HOLD"

\* the tuple returned for an intrinsic value; the division by a price of
\* 0.0 raises ZeroDivisionError
margin64(intrinsic_value, current_price) ==
  IF current_price.s = 0 THEN Raised
  ELSE R(intrinsic_value,
         signal64(FDiv(FSub(intrinsic_value, current_price), current_price)))

\* calculate_ddm from the capped growth rate on
ddm_value64(metrics, growth_rate, required_return) ==
  margin64(FDiv(FMul(FMul(metrics.current_price, metrics.dividend_yield),
                     FAdd(FOne, growth_rate)),
                FSub(required_return, growth_rate)),
           metrics.current_price)

\* body of calculate_ddm inside the try
ddm_body64(metrics, required_return) ==
  IF FCmp(metrics.dividend_yield, FZero) <= 0 THEN NA
  ELSE ddm_value64(metrics, Min64(metrics.growth_rate, FSub(required_return, Cap64)),
                   required_return)

\* ValuationCalculator.calculate_ddm(required_return) in binary64
calculate_ddm64(self, required_return) ==
  Caught(ddm_body64(metrics64(self), required_return), NA)

CallDDM64(required_return) ==
  Call("calculate_ddm", <<required_return>>, calculate_ddm64(Self, required_return))

\* the current prices 1.0, 3.0, 7.0, 10.0, 0.5, 123.45 and 0.0
Prices64 ==
  {F64(1, 128, 0, 0, 0, -52), F64(1, 192, 0, 0, 0, -51), F64(1, 224, 0, 0, 0, -50),
   F64(1, 160, 0, 0, 0, -49), F64(1, 128, 0, 0, 0, -53),
   F64(1, 246, 29491, 6553, 19661, -46), FZero}

\* the dividend yields 0.05714285714285714, 0.0380952380952381, 0.04, 0.06,
\* 0.02 and 0.0, and no dividendYield at all
Yields64 ==
  {F64(1, 234, 1872, 14979, 21533, -57), F64(1, 156, 1248, 9986, 14356, -57),
   F64(1, 163, 27525, 3932, 5243, -57), F64(1, 245, 24903, 22282, 7864, -57),
   F64(1, 163, 27525, 3932, 5243, -58), FZero, Absent}

\* the analyst estimates 0.2 and 0.0, and no revenueGrowth at all
Growths64 == {F64(1, 204, 26214, 13107, 6554, -55), FZero, Absent}

\* a calculator without statements whose info holds only the three fields
\* calculate_ddm depends on
Info64(price, yield, growth) ==
  [k \in InfoKeys |->
     IF k = "currentPrice" THEN price
     ELSE IF k = "dividendYield" THEN yield
     ELSE IF k = "revenueGrowth" THEN growth
     ELSE Absent]

InitDDM64 ==
  \E price \in Prices64, yield \in Yields64, growth \in Growths64 :
    Constructed([info |-> Info64(price, yield, growth),
                 financials |-> NoFinancials, cash_flow |-> NoCashFlow])

NextDDM64 == CallDDM64(DefaultReturn64)

SpecDDM64 == InitDDM64 /\ [][NextDDM64]_vars

\* C27: for dividend_yield > 0 and current_price > 0 the signal of
\* calculate_ddm does not depend on current_price: a snapshot that differs
\* only in current_price gets the same DDM signal
C27_Original ==
  (/\ last.op = "calculate_ddm"
   /\ FCmp(metrics64(Self).dividend_yield, FZero) > 0
   /\ FCmp(metrics64(Self).current_price, FZero) > 0)
  => \A price \in Prices64 :
       FCmp(price, FZero) > 0
       => calculate_ddm64([Self EXCEPT !.info["currentPrice"] = price],
                          last.args[1]).signal = last.ret.signal

====
